---- MODULE Spec2Model ----
(***************************************************************************)
(* A model of the authenticated access layer of jira-mcp:                  *)
(*   - OAuthStrategy / ApiTokenStrategy   (src/src/auth/*.ts)              *)
(*   - JiraApiService request client      (src/unnamed/part_002)           *)
(* Every network call is a suspension point: one action runs the code      *)
(* from the arrival of a response up to the next network call (or to the   *)
(* end of the request).  File-system calls are synchronous and belong to   *)
(* the action in which they occur.                                         *)
(***************************************************************************)
EXTENDS Integers, Sequences, FiniteSets, TLC

VARIABLES
    startup,     \* the configuration the process was started with, and what came of it
    authType,    \* AuthStrategy.getType(): "API_TOKEN" or "OAUTH_2.0"
    tokenFile,   \* the credential file at tokenStoragePath
    now,         \* Date.now(), in minutes
    issued,      \* number of token pairs the token endpoint has issued
    persisted,   \* history: the pairs refreshAndStoreTokens has written
    removed,     \* history: the credential file was removed from outside
    op,          \* the service operation in progress and its join state
    proc,        \* one record per request (fetchWithRetry / addAttachmentWithRetry)
    content      \* a response body under cleaning: the raw issue and what is made of it

vars == <<startup, authType, tokenFile, now, issued, persisted, removed, op, proc, content>>

-----------------------------------------------------------------------------
(* Bounds of the model *)

MaxIssued == 2     \* token pairs the endpoint may issue in one behaviour
MaxTicks == 1      \* clock ticks in one behaviour
MaxNodes == 3      \* nodes of a document
MaxLinks == 2      \* formal links of an issue
MaxComments == 2   \* comments of an issue

(* Program constants *)

StartTime == 5     \* the clock's first value (any positive instant)
ExpiryMargin == 1  \* 60000 ms safety margin, in minutes
CloudTtl == 60     \* 60 * 60 * 1000 ms, in minutes
TruncLen == 200    \* characters of a non-JSON error body that are kept
FileMode == 600    \* mode 0o600 given to writeFileSync
DirMode == 700     \* mode 0o700 given to mkdirSync

-----------------------------------------------------------------------------
(* Errors: an Error's message is modelled by its segments, outermost first *)

Err(tag, msg, status) == [tag |-> tag, msg |-> msg, status |-> status]
NoError == Err("", <<>>, 0)

Wrap(prefix, e) == Err(prefix, <<prefix>> \o e.msg, e.status)

StoreError == Err("Failed to store tokens", <<"Failed to store tokens">>, 0)
NetworkFailure == Err("fetch failed", <<"fetch failed">>, 0)

-----------------------------------------------------------------------------
(* Values *)

EmptyToken == <<>>                       \* "" or undefined: falsy
initialRefreshToken == <<"env">>         \* JIRA_REFRESH_TOKEN
AccessTok(k) == <<"at", k>>
RefreshTok(k) == <<"rt", k>>

NoCloud == ""                            \* cloud_id undefined
IssueIds == {"TEST-1", "EPIC-1"}

(* The credential file.  state: "missing" (no file), "unreadable"          *)
(* (readFileSync throws), "corrupt" (JSON.parse throws), "json".           *)
(* expires_at = 0 and cloud_id_expires_at = 0 stand for an absent (falsy)  *)
(* field.  mode and dirMode are the permission bits of the file and of its *)
(* parent directory (0: it does not exist), written as the octal digits.   *)
MissingFile ==
    [state |-> "missing", access_token |-> EmptyToken, refresh_token |-> EmptyToken,
     expires_at |-> 0, cloud_id |-> NoCloud, cloud_id_expires_at |-> 0,
     mode |-> 0, dirMode |-> 0]

(* a StoredTokens object, and the file an earlier run of the program wrote *)
Tokens(at, rt, exp, cid, cexp) ==
    [state |-> "json", access_token |-> at, refresh_token |-> rt,
     expires_at |-> exp, cloud_id |-> cid, cloud_id_expires_at |-> cexp,
     mode |-> FileMode, dirMode |-> DirMode]

Null == [MissingFile EXCEPT !.state = "null"]   \* loadStoredTokens' null

\* (mutant: the refresh token is not validated)
loadStoredTokensLoose(file) ==
    IF file.state # "json" THEN Null
    ELSE IF file.access_token = EmptyToken THEN Null
    ELSE file

(* OAuthStrategy.loadStoredTokens: never throws; null unless the file      *)
(* exists, parses and has a truthy access_token and refresh_token.         *)
loadStoredTokens(file) ==
    IF file.state # "json" THEN Null
    ELSE IF file.access_token = EmptyToken \/ file.refresh_token = EmptyToken THEN Null
    ELSE file

(* OAuthStrategy.storeTokens: creates the directory if it is missing,      *)
(* writes the whole record, or throws.  writeOk is the file system's       *)
(* answer to writeFileSync, whose mode option is applied only to a file    *)
(* that the call creates.                                                  *)
storeTokens(file, tokens, writeOk) ==
    LET dir == IF file.dirMode = 0 THEN DirMode ELSE file.dirMode
        mode == IF file.state = "missing" THEN FileMode ELSE file.mode
    IN
    IF writeOk
    THEN [ok |-> TRUE, err |-> NoError,
          file |-> [tokens EXCEPT !.state = "json", !.mode = mode, !.dirMode = dir]]
    ELSE [ok |-> FALSE, err |-> StoreError,
          file |-> [file EXCEPT !.dirMode = dir]]

-----------------------------------------------------------------------------
(* HTTP responses of the issue tracker.  A body is either JSON (with the   *)
(* fields handleFetchError looks at) or raw text, a sequence of characters *)

JsonBody(errorMessages, message, errorMessage) ==
    [json |-> TRUE, errorMessages |-> errorMessages, message |-> message,
     errorMessage |-> errorMessage, text |-> <<>>]
TextBody(text) ==
    [json |-> FALSE, errorMessages |-> <<>>, message |-> "", errorMessage |-> "",
     text |-> text]

Response(status, body) == [status |-> status, body |-> body]
NoResponse == Response(0, TextBody(<<>>))

Ok(response) == response.status >= 200 /\ response.status <= 299

StatusText(status) ==
    CASE status = 401 -> "Unauthorized"
      [] status = 403 -> "Forbidden"
      [] status = 404 -> "Not Found"
      [] status = 500 -> "Internal Server Error"
      [] OTHER -> ""

RECURSIVE Join(_)
Join(list) ==
    IF list = <<>> THEN <<>>
    ELSE IF Len(list) = 1 THEN <<list[1]>>
    ELSE <<list[1], "; ">> \o Join(Tail(list))

Truncate(text) ==
    IF Len(text) > TruncLen THEN SubSeq(text, 1, TruncLen) \o <<"...">> ELSE text

(* The message handleFetchError extracts (part_002 lines 42-77), as the    *)
(* sequence of its segments; <<>> is the empty string.                     *)
ErrorMessage(response) ==
    LET b == response.body IN
    IF b.json
    THEN IF b.errorMessages # <<>> THEN Join(b.errorMessages)
         ELSE IF b.message # "" THEN <<b.message>>
         ELSE IF b.errorMessage # "" THEN <<b.errorMessage>>
         ELSE IF StatusText(response.status) # "" THEN <<StatusText(response.status)>>
         ELSE <<>>
    ELSE Truncate(b.text)

(* handleFetchError (part_002 lines 36-88): the url it is given is not used *)
handleFetchError(response, url) ==
    Err("JIRA API Error", <<"JIRA API Error">> \o ErrorMessage(response),
        response.status)

(* error.message.includes("(Status: 404)") *)
IncludesStatus404(e) ==
    \/ e.status = 404
    \/ \E i \in 1..Len(e.msg) : e.msg[i] = "(Status: 404)"

-----------------------------------------------------------------------------
(* Headers: a map from lower-case header names to values (<<>> = not set)  *)

HeaderNames == {"authorization", "accept", "content-type", "x-custom", "x-atlassian-token"}

LowerCase(name) ==
    CASE name = "Authorization" -> "authorization"
      [] name = "AUTHORIZATION" -> "authorization"
      [] name = "Accept" -> "accept"
      [] name = "Content-Type" -> "content-type"
      [] name = "X-Custom" -> "x-custom"
      [] name = "X-Atlassian-Token" -> "x-atlassian-token"
      [] OTHER -> name

NoHeaders == [n \in HeaderNames |-> <<>>]

HeadersSet(headers, key, value) == [headers EXCEPT ![LowerCase(key)] = value]
HeadersDelete(headers, key) == [headers EXCEPT ![LowerCase(key)] = <<>>]

(* new Headers({Authorization, Accept, "Content-Type"}) *)
AuthHeaders(authorization) ==
    HeadersSet(HeadersSet(HeadersSet(NoHeaders,
        "Authorization", authorization),
        "Accept", <<"application/json">>),
        "Content-Type", <<"application/json">>)

Bearer(accessToken) == <<"Bearer", accessToken>>
BasicAuth == <<"Basic", "base64(email:apiToken)">>
CallerAuth == <<"Basic", "caller">>

(* ApiTokenStrategy.getAuthHeaders *)
ApiTokenHeaders == AuthHeaders(BasicAuth)

(* init.headers, as the caller wrote them: a sequence of <<name, value>> *)
CallerHeaders ==
    { <<>>,
      << <<"AUTHORIZATION", CallerAuth>>, <<"X-Custom", <<"v">>>> >> }

(* fetchWithRetry lines 276-281: every caller header is set *)
RECURSIVE MergeFirst(_, _)
MergeFirst(headers, init) ==
    IF init = <<>> THEN headers
    ELSE MergeFirst(HeadersSet(headers, init[1][1], init[1][2]), Tail(init))

(* fetchWithRetry lines 305-312: every caller header but authorization *)
RECURSIVE MergeRetry(_, _)
MergeRetry(headers, init) ==
    IF init = <<>> THEN headers
    ELSE IF LowerCase(init[1][1]) # "authorization"
         THEN MergeRetry(HeadersSet(headers, init[1][1], init[1][2]), Tail(init))
         ELSE MergeRetry(headers, Tail(init))

(* addAttachmentWithRetry lines 587-589 *)
AttachmentHeaders(headers) ==
    HeadersSet(HeadersDelete(headers, "Content-Type"), "X-Atlassian-Token", <<"no-check">>)

-----------------------------------------------------------------------------
(* Requests.  A request is one call of fetchWithRetry (kind "json") or of  *)
(* addAttachmentWithRetry (kind "attachment").  pc names the network call  *)
(* the request is waiting for:                                             *)
(*   "token"      the token endpoint        (refreshAndStoreTokens)        *)
(*   "resources"  the discovery endpoint    (fetchAccessibleResources)     *)
(*   "call"       the issue-tracker path    (fetch in the request client)  *)

Procs == {1, 2, 3}

NoResult == [kind |-> "none", body |-> TextBody(<<>>), err |-> NoError]
Success(body) == [kind |-> "ok", body |-> body, err |-> NoError]
Failure(e) == [kind |-> "error", body |-> TextBody(<<>>), err |-> e]

NoUrl == [path |-> "", issue |-> ""]

(* what loadStoredTokens looks at in the credential file *)
Shape(file) ==
    [state |-> file.state,
     access_token |-> IF file.access_token = EmptyToken THEN EmptyToken ELSE <<"at">>,
     refresh_token |-> IF file.refresh_token = EmptyToken THEN EmptyToken ELSE <<"rt">>]

(* history of the request's latest access-token resolution (one call of    *)
(* getValidAccessToken): the file it loaded, the case it found, the        *)
(* refresh tokens it has                                                   *)
(* submitted, the first error a refresh of it gave, what it returned or    *)
(* raised, and the request's counters at its start and at its return       *)
NoResolution ==
    [case |-> "none", file |-> Shape(MissingFile),
     storedRt |-> EmptyToken, storedAt |-> EmptyToken,
     submitted |-> <<>>, firstErr |-> NoError,
     returned |-> EmptyToken, raised |-> NoError, mark |-> <<0, 0>>, end |-> <<0, 0>>,
     at |-> 0]

(* history of the request's latest successful getCloudId call: where the   *)
(* identifier came from ("cache" or "lookup"), the identifier, the time of *)
(* the call and the expiry the cache entry it used had                     *)
NoLookup == [from |-> "none", id |-> NoCloud, at |-> 0, exp |-> 0]

NoResources == [kind |-> "none", resources |-> <<>>]

(* history of the request's latest storeTokens call: whether it wrote,     *)
(* whether it created the file and the directory, the permission bits      *)
(* after it and the error it raised                                        *)
NoSave ==
    [done |-> FALSE, ok |-> FALSE, createdFile |-> FALSE, createdDir |-> FALSE,
     mode |-> 0, dirMode |-> 0, err |-> NoError]
Saved(before, ok, after, err) ==
    [done |-> TRUE, ok |-> ok,
     createdFile |-> ok /\ before.state = "missing",
     createdDir |-> before.dirMode = 0,
     mode |-> after.mode, dirMode |-> after.dirMode, err |-> err]

(* No answer of the token endpoint yet *)
NoAnswer ==
    [kind |-> "", expires_in |-> 0, status |-> 0,
     body |-> [json |-> FALSE, error_description |-> "", error |-> "", text |-> <<>>]]

IdleProc ==
    [pc |-> "idle", kind |-> "json", url |-> NoUrl, init |-> <<>>,
     phase |-> "", gv |-> "", rt |-> EmptyToken,
     loaded |-> Null, t0 |-> 0, base |-> <<>>,
     isRetry |-> FALSE, inTry |-> FALSE,
     first |-> NoResponse, calls |-> <<>>, responses |-> <<>>,
     result |-> NoResult,
     \* history of the request, read only by the properties
     startValid |-> FALSE, startCached |-> FALSE,
     nToken |-> 0, nDiscovery |-> 0, nWrites |-> 0,
     mark |-> <<0, 0, 0>>,
     forced |-> "none", newToken |-> EmptyToken,
     storeFailed |-> FALSE,
     lastRefresh |-> [token |-> EmptyToken, wrote |-> FALSE, answer |-> NoAnswer,
                      err |-> NoError, at |-> 0],
     res |-> NoResolution, badSubmit |-> FALSE,
     cloud |-> NoLookup, relookup |-> FALSE, discovered |-> NoResources,
     save |-> NoSave]

(* JiraApiService.getApiBaseUrl: the configured base URL, or the URL built *)
(* from the cloud id                                                       *)
baseUrl == <<startup.config.baseUrl>>
CloudBase(cloudId) == <<"https://api.atlassian.com/ex/jira/", cloudId>>

(* The state a piece of code runs on: the file, the request, the endpoint's counter *)
St(file, p, n) == [file |-> file, p |-> p, issued |-> n]

Finish(s, result) == [s EXCEPT !.p.pc = "done", !.p.result = result]

(* An error thrown while the request runs.  Inside the try block of the    *)
(* 401/403 recovery (part_002 lines 293-327 and 603-610) it is caught and  *)
(* the code falls through to the handling of the first response.           *)
\* (mutant: the catch is missing, the error propagates)
ThrowAlways(s, e) == Finish(s, Failure(e))

Throw(s, e) ==
    IF s.p.inTry
    THEN Finish(s, Failure(handleFetchError(s.p.first, s.p.url)))
    ELSE Finish(s, Failure(e))

(* fetch(fullUrl, {...init, headers}) *)
IssueCall(s, headers) ==
    [s EXCEPT !.p.pc = "call",
              !.p.calls = Append(@, [headers |-> headers, base |-> s.p.base,
                                     cloudId |-> s.p.cloud.id])]

(* getAuthHeaders has returned: lines 276-288 / 588-598 *)
FirstHeaders(kind, headers, init) ==
    IF kind = "attachment" THEN AttachmentHeaders(headers)
    ELSE MergeFirst(headers, init)

(* fetch(token endpoint) in refreshAndStoreTokens *)
AwaitToken(s, refreshToken, gv) ==
    LET stored == loadStoredTokens(s.file) IN
    [s EXCEPT !.p.pc = "token", !.p.rt = refreshToken, !.p.gv = gv,
              !.p.nToken = @ + 1,
              !.p.res.submitted = IF gv = "forced" THEN @ ELSE Append(@, refreshToken),
              !.p.badSubmit = @ \/ (IF refreshToken = initialRefreshToken
                                    THEN stored # Null
                                    ELSE stored = Null \/ stored.refresh_token # refreshToken)]

(* getValidAccessToken returns accessToken to fetchAccessibleResources     *)
(* (phase "cloud") or to getAuthHeaders (phase "headers")                  *)
ReturnAccessToken(s, accessToken) ==
    LET t == [s EXCEPT !.p.res.returned = accessToken,
                       !.p.res.end = <<s.p.nToken, s.p.nWrites>>] IN
    IF s.p.phase = "cloud"
    THEN [t EXCEPT !.p.pc = "resources", !.p.nDiscovery = @ + 1,
                   !.p.relookup = @ \/ (s.p.cloud.from # "none"
                                          /\ now < s.p.cloud.at + CloudTtl)]
    ELSE IssueCall(t, FirstHeaders(s.p.kind, AuthHeaders(Bearer(accessToken)), s.p.init))

\* (mutant: a stored access token is never taken for expired)
ExpiredNever(stored) == FALSE

Expired(stored) == stored.expires_at # 0 /\ now >= stored.expires_at

(* OAuthStrategy.getValidAccessToken, up to its first network call *)
RunGetValidAccessToken(s) ==
    LET stored == loadStoredTokens(s.file)
        usable == stored # Null /\ stored.access_token # EmptyToken
        t == [s EXCEPT !.p.res =
                 [NoResolution EXCEPT
                     !.case = IF ~usable THEN "absent"
                              ELSE IF Expired(stored) THEN "expired" ELSE "valid",
                     !.file = Shape(s.file),
                     !.storedRt = stored.refresh_token,
                     !.storedAt = stored.access_token,
                     !.mark = <<s.p.nToken, s.p.nWrites>>,
                     !.at = now]]
    IN
    IF usable
    THEN IF Expired(stored)
         THEN AwaitToken(t, stored.refresh_token, "expired")
         ELSE ReturnAccessToken(t, stored.access_token)
    ELSE AwaitToken(t, initialRefreshToken, "bootstrap")

CloudCached(stored) ==
    /\ stored # Null
    /\ stored.cloud_id # NoCloud
    /\ stored.cloud_id_expires_at # 0
    /\ now < stored.cloud_id_expires_at

(* OAuthStrategy.getCloudId up to its first network call, followed (cache  *)
(* hit) by getAuthHeaders                                                  *)
RunGetCloudId(s) ==
    LET stored == loadStoredTokens(s.file) IN
    IF CloudCached(stored)
    THEN RunGetValidAccessToken(
             [s EXCEPT !.p.phase = "headers", !.p.base = CloudBase(stored.cloud_id),
                       !.p.relookup = @ \/ (s.p.cloud.from # "none"
                                              /\ now < s.p.cloud.at + CloudTtl
                                              /\ stored.cloud_id # s.p.cloud.id),
                       !.p.cloud = [from |-> "cache", id |-> stored.cloud_id,
                                    at |-> now, exp |-> stored.cloud_id_expires_at]])
    ELSE RunGetValidAccessToken(
             [s EXCEPT !.p.phase = "cloud", !.p.loaded = stored, !.p.t0 = now])

(* fetchWithRetry / addAttachmentWithRetry from their first line to their  *)
(* first network call: getApiBaseUrl, then getAuthHeaders                  *)
RunRequest(s) ==
    IF authType = "OAUTH_2.0"
    THEN RunGetCloudId(s)
    ELSE IssueCall([s EXCEPT !.p.base = baseUrl],
                   FirstHeaders(s.p.kind, ApiTokenHeaders, s.p.init))

-----------------------------------------------------------------------------
(* The token endpoint's answers *)

ExpiresIn == {0, 1, 2}    \* expires_in, in minutes; 0: not provided

(* The body of a non-success answer: JSON with the fields error_description *)
(* and error ("" = absent), or raw text, a sequence of characters          *)
TokenJson(error_description, error) ==
    [json |-> TRUE, error_description |-> error_description, error |-> error,
     text |-> <<>>]
TokenText(text) ==
    [json |-> FALSE, error_description |-> "", error |-> "", text |-> text]

TokenOutcome(kind, expires_in, status, body) ==
    [kind |-> kind, expires_in |-> expires_in, status |-> status, body |-> body]

TokenOk(expires_in) == TokenOutcome("ok", expires_in, 200, TokenJson("", ""))
TokenRejected == TokenOutcome("http", 0, 400, TokenJson("", ""))
TokenIncomplete == TokenOutcome("incomplete", 0, 200, TokenJson("", ""))
TokenUnreachable == TokenOutcome("network", 0, 0, TokenText(<<>>))

TokenOutcomes ==
    {TokenOk(e) : e \in ExpiresIn} \cup {TokenRejected, TokenIncomplete, TokenUnreachable}

(* What lines 234-255 append to "Token refresh failed (Status: n)" *)
\* (mutant: the provider's text is left out)
TokenErrorTextNone(body) == <<>>

TokenErrorText(body) ==
    IF body.json
    THEN IF body.error_description # "" THEN <<": ", body.error_description>>
         ELSE IF body.error # "" THEN <<": ", body.error>>
         ELSE <<>>
    ELSE <<": ">> \o (IF Len(body.text) > TruncLen
                      THEN SubSeq(body.text, 1, TruncLen) ELSE body.text)

TokenError(outcome) ==
    CASE outcome.kind = "http" ->
            Err("Token refresh failed",
                <<"Token refresh failed (Status: ", ToString(outcome.status), ")">>
                    \o TokenErrorText(outcome.body),
                outcome.status)
      [] outcome.kind = "incomplete" ->
            Err("Incomplete token data", <<"Incomplete token data received from OAuth endpoint">>, 0)
      [] OTHER -> NetworkFailure

(* lines 266-268: the expiry stored with a pair, a minute before the end   *)
(* of its lifetime; 0 (undefined) when the answer gives no lifetime        *)
\* (mutant: the whole lifetime is used)
ExpiresAtNoMargin(expires_in) ==
    IF expires_in # 0 THEN now + expires_in ELSE 0

ExpiresAt(expires_in) ==
    IF expires_in # 0 THEN now + expires_in - ExpiryMargin ELSE 0

(* OAuthStrategy.refreshAndStoreTokens from the endpoint's answer on:      *)
(* lines 234-284.  k numbers the pair the endpoint issues.                 *)
RefreshResult(ok, file, token, err, wrote, storeFailed) ==
    [ok |-> ok, file |-> file, token |-> token, err |-> err, wrote |-> wrote,
     storeFailed |-> storeFailed]

\* (mutant: the write's failure is ignored and the token returned)
refreshAndStoreTokensUnsafe(file, outcome, k, writeOk) ==
    IF outcome.kind # "ok"
    THEN RefreshResult(FALSE, file, EmptyToken,
                       Wrap("OAuth token refresh failed", TokenError(outcome)), FALSE, FALSE)
    ELSE LET expiresAt == ExpiresAt(outcome.expires_in)
             tokensToStore == Tokens(AccessTok(k), RefreshTok(k), expiresAt, NoCloud, 0)
             w == storeTokens(file, tokensToStore, writeOk)
         IN RefreshResult(TRUE, w.file, AccessTok(k), NoError, w.ok, ~w.ok)

refreshAndStoreTokens(file, outcome, k, writeOk) ==
    IF outcome.kind # "ok"
    THEN RefreshResult(FALSE, file, EmptyToken,
                       Wrap("OAuth token refresh failed", TokenError(outcome)), FALSE, FALSE)
    ELSE LET expiresAt == ExpiresAt(outcome.expires_in)
             tokensToStore == Tokens(AccessTok(k), RefreshTok(k), expiresAt, NoCloud, 0)
             w == storeTokens(file, tokensToStore, writeOk)
         IN IF w.ok
            THEN RefreshResult(TRUE, w.file, AccessTok(k), NoError, TRUE, FALSE)
            ELSE RefreshResult(FALSE, w.file, EmptyToken,
                               Wrap("OAuth token refresh failed", StoreError), FALSE, TRUE)

(* OAuthStrategy.handleTokenExpiration up to its network call, entered     *)
(* from the try block of the request client                                *)
RunHandleTokenExpiration(s) ==
    LET stored == loadStoredTokens(s.file) IN
    IF stored = Null \/ stored.refresh_token = EmptyToken
    THEN Throw([s EXCEPT !.p.forced = "failed"],
               Err("No stored refresh token", <<"No stored refresh token available for token refresh">>, 0))
    ELSE AwaitToken(s, stored.refresh_token, "forced")

(* The code that runs when refreshAndStoreTokens returns or throws *)
AfterRefresh(s, r) ==
    IF r.ok
    THEN IF s.p.phase = "expire"
         THEN LET t == [s EXCEPT !.p.forced = "ok", !.p.newToken = r.token] IN
              IF s.p.kind = "attachment"
              THEN RunRequest([t EXCEPT !.p.isRetry = TRUE])
              ELSE IssueCall(t, MergeRetry(AuthHeaders(Bearer(r.token)), s.p.init))
         ELSE ReturnAccessToken(s, r.token)
    ELSE IF s.p.gv = "forced"
         THEN Throw([s EXCEPT !.p.forced = "failed"], r.err)
         ELSE LET t == [s EXCEPT !.p.res.firstErr = IF @ = NoError THEN r.err ELSE @] IN
              IF s.p.gv = "expired"
              THEN AwaitToken(t, initialRefreshToken, "bootstrap")
              ELSE LET u == [t EXCEPT !.p.res.raised = r.err] IN
                   IF s.p.phase = "cloud"
                   THEN Throw(u, Wrap("Failed to get cloud ID", r.err))
                   ELSE Throw(u, r.err)

(* The discovery endpoint's answers *)
(* An AccessibleResource: its id and its scopes *)
Resource(id, scopes) == [id |-> id, scopes |-> scopes]

ResourceLists ==
    {<<Resource("conf-1", <<"read:confluence-content.all">>)>>,
     <<Resource("conf-1", <<"read:confluence-content.all">>),
       Resource("cloud-1", <<"read:me", "read:jira-work">>),
       Resource("cloud-2", <<"write:jira-work">>)>>}

ResourceOutcomes ==
    {[kind |-> "ok", resources |-> l] : l \in ResourceLists}
    \cup {[kind |-> k, resources |-> <<>>] : k \in {"http", "network"}}

(* scope.includes('jira') *)
ScopeIncludesJira(scope) == scope \in {"read:jira-work", "write:jira-work"}

(* resource.scopes.some(scope => scope.includes('jira')) *)
HasJiraScope(resource) ==
    \E n \in 1..Len(resource.scopes) : ScopeIncludesJira(resource.scopes[n])

(* resources.find(...): the first resource with a jira scope, or Null *)
RECURSIVE FindJiraResource(_)
FindJiraResource(resources) ==
    IF resources = <<>> THEN Resource(NoCloud, <<>>)
    ELSE IF HasJiraScope(resources[1]) THEN resources[1]
    ELSE FindJiraResource(Tail(resources))

(* what getCloudId raises when fetchAccessibleResources fails *)
ResourceError(outcome) ==
    Wrap("Failed to get cloud ID",
         Wrap("Failed to fetch accessible resources",
              CASE outcome.kind = "http" ->
                       Err("Failed to fetch accessible resources (Status)",
                           <<"Failed to fetch accessible resources (Status: ", "500", ")">>, 500)
                [] outcome.kind = "ok" ->
                       Err("No JIRA resource", <<"No JIRA resource found in accessible resources">>, 0)
                [] OTHER -> NetworkFailure))

(* OAuthStrategy.fetchAccessibleResources from the endpoint's answer on:   *)
(* the cloud id, or NoCloud when it throws                                 *)
fetchAccessibleResources(outcome) ==
    IF outcome.kind = "ok" THEN FindJiraResource(outcome.resources).id ELSE NoCloud

\* (mutant: the identifier is not cached in the credential file)
AfterResourcesNoStore(s, outcome, writeOk) ==
    LET cloudId == fetchAccessibleResources(outcome) IN
    IF cloudId = NoCloud
    THEN Throw(s, ResourceError(outcome))
    ELSE RunGetValidAccessToken(
             [s EXCEPT !.p.base = CloudBase(cloudId), !.p.phase = "headers",
                       !.p.cloud = [from |-> "lookup", id |-> cloudId,
                                    at |-> now, exp |-> 0]])

(* getCloudId lines 123-135 once fetchAccessibleResources has its answer,  *)
(* then getAuthHeaders                                                     *)
AfterResources(s, outcome, writeOk) ==
    LET cloudId == fetchAccessibleResources(outcome) IN
    IF cloudId = NoCloud
    THEN Throw(s, ResourceError(outcome))
    ELSE LET t == [s EXCEPT !.p.base = CloudBase(cloudId), !.p.phase = "headers",
                            !.p.cloud = [from |-> "lookup", id |-> cloudId,
                                         at |-> now, exp |-> 0]] IN
         IF s.p.loaded = Null
         THEN RunGetValidAccessToken(t)
         ELSE LET w == storeTokens(s.file,
                           [s.p.loaded EXCEPT !.cloud_id = cloudId,
                                              !.cloud_id_expires_at = s.p.t0 + CloudTtl],
                           writeOk)
              IN IF w.ok
                 THEN RunGetValidAccessToken(
                          [t EXCEPT !.file = w.file, !.p.nWrites = @ + 1,
                                    !.p.save = Saved(s.file, TRUE, w.file, w.err)])
                 ELSE Throw([s EXCEPT !.file = w.file,
                                      !.p.save = Saved(s.file, FALSE, w.file, w.err)],
                            Wrap("Failed to get cloud ID", w.err))

(* The issue tracker's answers *)
Bodies == {JsonBody(<<>>, "m1", ""), TextBody(<<"t", "2">>)}
Responses ==
    {Response(401, b) : b \in Bodies}
    \cup {Response(st, JsonBody(<<>>, "m1", "")) : st \in {200, 500}}
    \cup {Response(st, TextBody(<<"t", "2">>)) : st \in {403, 404}}

\* (mutant: every failure status is taken for an authorization failure)
AuthFailureAny(response) == ~Ok(response)

(* response.status === 401 || response.status === 403 *)
AuthFailure(response) ==
    ~Ok(response) /\ (response.status = 401 \/ response.status = 403)

(* part_002 lines 290-335 and 600-624: the answer to the first call of a   *)
(* frame (for an attachment, the recursive call has isRetry = TRUE)        *)
AfterResponse(s, r) ==
    IF AuthFailure(r) /\ ~s.p.isRetry /\ authType = "OAUTH_2.0"
    THEN RunHandleTokenExpiration([s EXCEPT !.p.inTry = TRUE, !.p.phase = "expire"])
    ELSE IF ~Ok(r)
         THEN Throw(s, handleFetchError(r, s.p.url))
         ELSE Finish(s, Success(r.body))

\* (mutant: a retried call that is refused again is repeated once more)
AfterRetryResponseAgain(s, r) ==
    IF AuthFailure(r) /\ Len(s.p.calls) < 3
    THEN IssueCall(s, s.p.calls[Len(s.p.calls)].headers)
    ELSE IF ~Ok(r)
    THEN Throw(s, handleFetchError(r, s.p.url))
    ELSE Finish(s, Success(r.body))

(* part_002 lines 320-324: the answer to the retried call of fetchWithRetry *)
AfterRetryResponse(s, r) ==
    IF ~Ok(r)
    THEN Throw(s, handleFetchError(r, s.p.url))
    ELSE Finish(s, Success(r.body))

-----------------------------------------------------------------------------
(* Start-up: AuthFactory.createAuthStrategy(connectionType, config), then  *)
(* new JiraApiService(config.baseUrl, strategy).  A configuration field is *)
(* "" when its environment variable is not set.                            *)

ConnectionTypes == {"Api_Token", "Oauth_2.0", "Basic"}

Config(url, email, apiToken, clientId, clientSecret, refreshToken) ==
    [baseUrl |-> url, email |-> email, apiToken |-> apiToken,
     clientId |-> clientId, clientSecret |-> clientSecret, refreshToken |-> refreshToken]

Configs ==
    {Config(u, e, t, "", "", "") :
        u \in {"", "JIRA_BASE_URL"}, e \in {"", "user@domain.net"}, t \in {"", "api-token"}}
    \cup {Config("JIRA_BASE_URL", "", "", c, k, r) :
        c \in {"", "client-id"}, k \in {"", "client-secret"}, r \in {"", "env"}}

ConfigError(message) == Err("Configuration", <<message>>, 0)

Created(type, error) == [type |-> type, error |-> error]

\* (mutant: the base URL is not required in static-token mode)
createAuthStrategyNoBaseUrl(connectionType, config) ==
    CASE connectionType = "Api_Token" ->
            IF config.email = "" \/ config.apiToken = ""
            THEN Created("none", ConfigError("JIRA_USER_EMAIL and JIRA_API_TOKEN are required"))
            ELSE Created("API_TOKEN", NoError)
      [] connectionType = "Oauth_2.0" ->
            IF config.clientId = "" \/ config.clientSecret = "" \/ config.refreshToken = ""
            THEN Created("none", ConfigError("JIRA_CLIENT_ID, JIRA_CLIENT_SECRET, and JIRA_REFRESH_TOKEN are required"))
            ELSE Created("OAUTH_2.0", NoError)
      [] OTHER -> Created("none", ConfigError("Unsupported connection type"))

(* AuthFactory.createAuthStrategy: the kind of the strategy it returns     *)
(* ("none" when it throws) and the error it throws                         *)
createAuthStrategy(connectionType, config) ==
    CASE connectionType = "Api_Token" ->
            IF config.email = "" \/ config.apiToken = ""
            THEN Created("none", ConfigError("JIRA_USER_EMAIL and JIRA_API_TOKEN are required"))
            ELSE IF config.baseUrl = ""
            THEN Created("none", ConfigError("JIRA_BASE_URL is required"))
            ELSE Created("API_TOKEN", NoError)
      [] connectionType = "Oauth_2.0" ->
            IF config.clientId = "" \/ config.clientSecret = "" \/ config.refreshToken = ""
            THEN Created("none", ConfigError("JIRA_CLIENT_ID, JIRA_CLIENT_SECRET, and JIRA_REFRESH_TOKEN are required"))
            ELSE Created("OAUTH_2.0", NoError)
      [] OTHER -> Created("none", ConfigError("Unsupported connection type"))

(* JiraApiService.constructor: throws for a static-token strategy without  *)
(* a base URL                                                              *)
ServiceConstructed(strategyType, url) ==
    /\ strategyType # "none"
    /\ ~(strategyType = "API_TOKEN" /\ url = "")

-----------------------------------------------------------------------------
(* Rich documents and the relationships extracted from them                *)
(*                                                                         *)
(* A string on which a regular expression is run is modelled by its        *)
(* segments: each segment is either an issue key (a whole match of         *)
(* [A-Z]+-\d+) or text in which the expression matches nothing.            *)
(* Concatenating strings is concatenating their segments.                  *)

Undefined == "undefined"

IssueKeys == {"TEST-2", "TEST-3", "TEST-4", "TEST-5", "TEST-8"}

(* a node of a document: attrs.url, text and content are empty when absent *)
Node(type, text, url, nodes) ==
    [type |-> type, text |-> text, url |-> url, content |-> nodes]
TextNode(text) == Node("text", text, <<>>, <<>>)
InlineCard(url) == Node("inlineCard", <<>>, url, <<>>)
Paragraph(nodes) == Node("paragraph", <<>>, <<>>, nodes)
HardBreak == Node("hardBreak", <<>>, <<>>, <<>>)

Min(S) == CHOOSE x \in S : \A y \in S : x <= y

(* url.match(/\/browse\/([A-Z]+-\d+)/): the key of the first match *)
UrlMatch(url) ==
    LET hits == {i \in 1..(Len(url) - 1) : url[i] = "/browse/" /\ url[i + 1] \in IssueKeys}
    IN IF hits = {} THEN Undefined ELSE url[Min(hits) + 1]

(* text.match(/[A-Z]+-\d+/g) || [] *)
TextMatches(text) == SelectSeq(text, LAMBDA segment : segment \in IssueKeys)

Mention(key, source, commentId) ==
    [key |-> key, summary |-> Undefined, type |-> "mention", relationship |-> Undefined,
     source |-> source, commentId |-> commentId]

\* (mutant: the nodes below the top level of the document are not visited)
processNodeTopLevel(node, source, commentId) ==
    LET Own(n) ==
            (IF n.type = "inlineCard" /\ n.url # <<>> /\ UrlMatch(n.url) # Undefined
             THEN <<Mention(UrlMatch(n.url), source, commentId)>> ELSE <<>>)
            \o (IF n.type = "text" /\ n.text # <<>>
                THEN LET matches == TextMatches(n.text)
                     IN [i \in 1..Len(matches) |-> Mention(matches[i], source, commentId)]
                ELSE <<>>)
        RECURSIVE each(_)
        each(nodes) == IF nodes = <<>> THEN <<>> ELSE Own(Head(nodes)) \o each(Tail(nodes))
    IN Own(node) \o each(node.content)

(* what processNode pushes onto mentions for the node and its descendants *)
RECURSIVE processNode(_, _, _)
processNode(node, source, commentId) ==
    LET card == IF node.type = "inlineCard" /\ node.url # <<>>
                   /\ UrlMatch(node.url) # Undefined
                THEN <<Mention(UrlMatch(node.url), source, commentId)>>
                ELSE <<>>
        matches == IF node.type = "text" /\ node.text # <<>>
                   THEN TextMatches(node.text) ELSE <<>>
        text == [i \in 1..Len(matches) |-> Mention(matches[i], source, commentId)]
        RECURSIVE forEach(_)
        forEach(nodes) ==
            IF nodes = <<>> THEN <<>>
            ELSE processNode(Head(nodes), source, commentId) \o forEach(Tail(nodes))
    IN card \o text \o forEach(node.content)

(* Map.prototype.set: a present key keeps its place and takes the new value *)
MapSet(map, m) ==
    IF \E i \in DOMAIN map : map[i].key = m.key
    THEN [i \in DOMAIN map |-> IF map[i].key = m.key THEN m ELSE map[i]]
    ELSE Append(map, m)

(* [...new Map(mentions.map((m) => [m.key, m])).values()] *)
RECURSIVE NewMapValues(_, _)
NewMapValues(map, mentions) ==
    IF mentions = <<>> THEN map
    ELSE NewMapValues(MapSet(map, Head(mentions)), Tail(mentions))

\* (mutant: the duplicates are not removed)
extractIssueMentionsNoDedup(nodes, source, commentId) ==
    processNode(Paragraph(nodes), source, commentId)

extractIssueMentions(nodes, source, commentId) ==
    NewMapValues(<<>>, processNode(Paragraph(nodes), source, commentId))

\* (mutant: only the text nodes of the top level are read)
RECURSIVE extractTextContentShallow(_)
extractTextContentShallow(nodes) ==
    IF nodes = <<>> THEN <<>>
    ELSE (IF Head(nodes).type = "text" THEN Head(nodes).text ELSE <<>>)
         \o extractTextContentShallow(Tail(nodes))

RECURSIVE extractTextContent(_)
extractTextContent(nodes) ==
    IF nodes = <<>> THEN <<>>
    ELSE LET node == Head(nodes)
             piece == IF node.type = "text" THEN node.text
                      ELSE IF node.content # <<>> THEN extractTextContent(node.content)
                      ELSE <<>>
         IN piece \o extractTextContent(Tail(nodes))

\* (mutant: the mentions are tagged as the description's)
cleanCommentUntagged(comment) ==
    [id |-> comment.id,
     body |-> extractTextContent(comment.body),
     mentions |-> extractIssueMentions(comment.body, "description", Undefined)]

cleanComment(comment) ==
    [id |-> comment.id,
     body |-> extractTextContent(comment.body),
     mentions |-> extractIssueMentions(comment.body, "comment", comment.id)]

(* an issue at one end of a link; NoIssue: the link has no issue there *)
LinkedIssue(key, summary) == [key |-> key, summary |-> summary]
NoIssue == LinkedIssue(Undefined, Undefined)

\* (mutant: the outward label is preferred)
linkEntryOutwardFirst(link) ==
    LET linkedIssue == IF link.inwardIssue # NoIssue THEN link.inwardIssue
                       ELSE link.outwardIssue
    IN [key |-> linkedIssue.key, summary |-> linkedIssue.summary, type |-> "link",
        relationship |-> IF link.type.outward # Undefined THEN link.type.outward
                         ELSE link.type.inward,
        source |-> "description", commentId |-> Undefined]

(* cleanIssue lines 215-225: the entry made of one formal link *)
linkEntry(link) ==
    LET linkedIssue == IF link.inwardIssue # NoIssue THEN link.inwardIssue
                       ELSE link.outwardIssue
        relationship == IF link.type.inward # Undefined THEN link.type.inward
                        ELSE link.type.outward
    IN [key |-> linkedIssue.key, summary |-> linkedIssue.summary, type |-> "link",
        relationship |-> relationship, source |-> "description", commentId |-> Undefined]

\* (mutant: the formal links are put before the mentions)
cleanIssueLinksFirst(issue) ==
    [key |-> issue.key,
     description |-> extractTextContent(issue.description),
     relatedIssues |->
        [i \in 1..Len(issue.issuelinks) |-> linkEntry(issue.issuelinks[i])]
        \o extractIssueMentions(issue.description, "description", Undefined),
     comments |-> <<>>]

cleanIssue(issue) ==
    LET description == IF issue.description # <<>>
                       THEN extractTextContent(issue.description) ELSE <<>>
        mentions == IF issue.description # <<>>
                    THEN extractIssueMentions(issue.description, "description", Undefined)
                    ELSE <<>>
        related == IF Len(mentions) > 0 THEN mentions ELSE <<>>
        links == [i \in 1..Len(issue.issuelinks) |-> linkEntry(issue.issuelinks[i])]
    IN [key |-> issue.key,
        description |-> description,
        relatedIssues |-> IF Len(issue.issuelinks) > 0 THEN related \o links ELSE related,
        comments |-> <<>>]

(* comments.flatMap((comment) => comment.mentions) *)
RECURSIVE flatMapMentions(_)
flatMapMentions(comments) ==
    IF comments = <<>> THEN <<>>
    ELSE Head(comments).mentions \o flatMapMentions(Tail(comments))

\* (mutant: a comment's mention of a key already listed is dropped)
withCommentsDeduped(issue, rawComments) ==
    LET comments == [i \in 1..Len(rawComments) |-> cleanComment(rawComments[i])]
    IN [issue EXCEPT
          !.relatedIssues = @ \o SelectSeq(flatMapMentions(comments),
                                   LAMBDA m : \A i \in 1..Len(issue.relatedIssues) :
                                                 issue.relatedIssues[i].key # m.key),
          !.comments = comments]

(* getIssueWithComments lines 452-462 and getEpicChildren lines 395-408:   *)
(* the comments are cleaned and their mentions appended                    *)
withComments(issue, rawComments) ==
    LET comments == [i \in 1..Len(rawComments) |-> cleanComment(rawComments[i])]
    IN [issue EXCEPT !.relatedIssues = @ \o flatMapMentions(comments),
                     !.comments = comments]

(* The response bodies that are cleaned *)

(* the text nodes and the nodes without content a document is made of *)
Leaves ==
    {TextNode(<<"see ", "TEST-2">>),
     TextNode(<<"TEST-3", " or ", "TEST-3">>),
     InlineCard(<<"https://your-domain.atlassian.net", "/browse/", "TEST-2">>),
     InlineCard(<<"https://example.com/", "page">>),
     HardBreak}

(* the node lists of n nodes in all, at any depth *)
RECURSIVE Forests(_)
Forests(n) ==
    IF n = 0 THEN {<<>>}
    ELSE UNION {
           {<<t>> \o f : t \in (IF k = 1 THEN Leaves ELSE {})
                               \cup {Paragraph(c) : c \in Forests(k - 1)},
                         f \in Forests(n - k)} : k \in 1..n}

Documents == UNION {Forests(n) : n \in 0..MaxNodes}

Descriptions ==
    {<<>>,
     <<Paragraph(<<TextNode(<<"Test Description with mention of ", "TEST-2">>),
                   InlineCard(<<"/browse/", "TEST-3">>)>>)>>,
     <<Paragraph(<<TextNode(<<"blocked by ", "TEST-8">>)>>)>>}

LinkType(inward, outward) == [inward |-> inward, outward |-> outward]
Link(type, inwardIssue, outwardIssue) ==
    [type |-> type, inwardIssue |-> inwardIssue, outwardIssue |-> outwardIssue]

(* the links the tracker returns: one issue, at the inward or the outward  *)
(* end, and a type with both labels (or, as in the tests, with one)        *)
Links ==
    {Link(LinkType("is blocked by", "blocks"), LinkedIssue("TEST-4", "Blocking Issue"), NoIssue),
     Link(LinkType("is blocked by", "blocks"), NoIssue, LinkedIssue("TEST-2", Undefined)),
     Link(LinkType("is blocked by", Undefined), LinkedIssue("TEST-2", "Other Issue"), NoIssue),
     Link(LinkType(Undefined, "blocks"), NoIssue, LinkedIssue("TEST-8", "Blocked Issue"))}

SeqsUpTo(S, n) == UNION {[1..k -> S] : k \in 0..n}

LinkLists == SeqsUpTo(Links, MaxLinks)

CommentBodies ==
    {<<>>,
     <<Paragraph(<<TextNode(<<"Test Comment mentioning ", "TEST-5">>),
                   InlineCard(<<"/browse/", "TEST-2">>)>>)>>,
     <<TextNode(<<"TEST-2", " again ", "TEST-2">>)>>}

RawComment(id, body) == [id |-> id, body |-> body]

(* the comments of an issue: their ids are distinct *)
CommentLists ==
    {[i \in DOMAIN bodies |-> RawComment(ToString(10000 + i), bodies[i])] :
        bodies \in SeqsUpTo(CommentBodies, MaxComments)}

RawIssue(key, description, issuelinks) ==
    [key |-> key, description |-> description, issuelinks |-> issuelinks]

Unbuilt == [key |-> Undefined, description |-> <<>>, relatedIssues |-> <<>>, comments |-> <<>>]

Raw(description, issuelinks, comments) ==
    [stage |-> "raw", raw |-> RawIssue("TEST-1", description, issuelinks),
     comments |-> comments, issue |-> Unbuilt]

(* documents of every shape, as the description and as a comment's body;   *)
(* and every combination of a description, formal links and comments       *)
RawContents ==
    {Raw(d, <<>>, <<RawComment(ToString(10001), d)>>) : d \in Documents}
    \cup {Raw(d, l, c) : d \in Descriptions, l \in LinkLists, c \in CommentLists}

-----------------------------------------------------------------------------
(* Initial states: the strategy chosen at start-up, and whatever an        *)
(* earlier run (or nothing) left in the credential file                    *)

StoredFiles ==
    {Tokens(AccessTok(0), RefreshTok(0), f[1], f[2], f[3]) :
        f \in {<<0, "cloud-0", StartTime + CloudTtl>>,
               <<0, "cloud-0", StartTime - 1>>,
               <<StartTime + 1, NoCloud, 0>>,
               <<StartTime + 1, "cloud-0", StartTime + CloudTtl>>,
               <<StartTime - 1, "cloud-0", StartTime + CloudTtl>>,
               <<StartTime - 1, "cloud-0", StartTime - 1>>}}

InitFiles ==
    {MissingFile,
     [MissingFile EXCEPT !.state = "unreadable", !.mode = FileMode, !.dirMode = DirMode],
     [MissingFile EXCEPT !.state = "corrupt", !.mode = FileMode, !.dirMode = DirMode],
     Tokens(EmptyToken, RefreshTok(0), 0, NoCloud, 0),
     Tokens(AccessTok(0), EmptyToken, 0, NoCloud, 0),
     \* a file its owner put in place by hand, readable by group and others
     [Tokens(AccessTok(0), RefreshTok(0), 0, NoCloud, 0) EXCEPT !.mode = 644, !.dirMode = 755]}
    \cup StoredFiles

(* no response body is under cleaning *)
NoContent == [stage |-> "none"]

(* search, comments, built, order, returned: the join of getEpicChildren.  *)
(* search: the issues of the search response; comments[k]: the comments    *)
(* response of child k; built[k]: what its callback returns; order: the    *)
(* children in the order their fetches settled; returned: the list given   *)
(* to the caller                                                           *)
NoOp ==
    [name |-> "none", issue |-> "", state |-> "idle", result |-> NoResult,
     epicLink |-> "", epicSummary |-> "none",
     search |-> <<>>, comments |-> <<>>, built |-> <<>>, order |-> <<>>, returned |-> <<>>]

Init ==
    /\ \E connectionType \in ConnectionTypes, config \in Configs :
          LET created == createAuthStrategy(connectionType, config) IN
          /\ startup = [connectionType |-> connectionType, config |-> config,
                        error |-> created.error,
                        service |-> ServiceConstructed(created.type, config.baseUrl)]
          /\ authType = created.type
    /\ tokenFile \in (IF authType = "OAUTH_2.0" THEN InitFiles ELSE {MissingFile})
    /\ now = StartTime
    /\ issued = 0
    /\ persisted = {}
    /\ removed = FALSE
    /\ op = NoOp
    /\ proc = [i \in Procs |-> IdleProc]
    /\ content = NoContent

-----------------------------------------------------------------------------
(* Actions *)

Urls ==
    {[path |-> "search", issue |-> ""],
     [path |-> "transitions", issue |-> "TEST-1"]}

(* the calls of fetchJson: a path, and the headers the caller passes *)
JsonRequests ==
    {<<url, init>> \in Urls \X CallerHeaders : init # <<>> => url.issue = ""}

NewRequest(file, kind, url, init) ==
    [IdleProc EXCEPT !.kind = kind, !.url = url, !.init = init,
        !.startValid = LET st == loadStoredTokens(file) IN st # Null /\ ~Expired(st),
        !.startCached = CloudCached(loadStoredTokens(file))]

Commit(i, s) ==
    /\ proc' = [proc EXCEPT ![i] = s.p]
    /\ tokenFile' = s.file
    /\ issued' = s.issued

(* getIssueWithComments lines 440-449: the catch of the Promise.all *)
PrimaryError(e, issueId) ==
    IF IncludesStatus404(e)
    THEN Err("Issue not found", <<"Issue not found: ", issueId>>, 0)
    ELSE e

(* getIssueWithComments lines 464-476: the epic fetch has settled with     *)
(* result r.  A mutation: its rejection rejects the operation.             *)
EpicLookupPropagating(o, r) ==
    IF r.kind = "ok"
    THEN [o EXCEPT !.state = "done", !.epicSummary = "resolved"]
    ELSE [o EXCEPT !.state = "done", !.result = r, !.epicSummary = "unresolved"]

(* getIssueWithComments lines 464-476: the epic fetch has settled with     *)
(* result r; the catch logs a rejection and the issue is returned as built *)
EpicLookup(o, r) ==
    [o EXCEPT !.state = "done",
              !.epicSummary = IF r.kind = "ok" THEN "resolved" ELSE "unresolved"]

(* The search responses of getEpicChildren: up to two children (requests   *)
(* 2 and 3 fetch their comments), and the comments responses               *)
ChildLists ==
    LET a == RawIssue("TEST-2", <<TextNode(<<"Child Description">>)>>, <<>>)
        b == RawIssue("TEST-3", <<TextNode(<<"see ", "TEST-2">>)>>,
                      <<Link(LinkType("is blocked by", "blocks"),
                             LinkedIssue("TEST-2", "Child Issue"), NoIssue)>>)
    IN {<<>>, <<a>>, <<a, b>>, <<b, a>>}

ChildComments ==
    {<<>>,
     <<RawComment("10001", <<TextNode(<<"Test Comment mentioning ", "TEST-5">>)>>)>>,
     <<RawComment("10002", <<TextNode(<<"TEST-2", " again ", "TEST-2">>)>>),
       RawComment("10003", <<>>)>>}

\* (mutant: the children are listed in the order their fetches completed)
ChildFetchedInCompletionOrder(o, k, commentsData, last) ==
    LET built == [o.built EXCEPT ![Len(o.order) + 1] =
                      withComments(cleanIssue(o.search[k]), commentsData)]
    IN [o EXCEPT !.comments[k] = commentsData,
                 !.built = built,
                 !.order = Append(@, k),
                 !.state = IF last THEN "done" ELSE @,
                 !.result = IF last THEN Success(TextBody(<<>>)) ELSE @,
                 !.returned = IF last THEN built ELSE @]

(* getEpicChildren lines 390-410: the comments fetch of child k has        *)
(* returned commentsData; its callback builds the child.  When it is the   *)
(* last one Promise.all fulfils with the children in the order of the      *)
(* search result (lines 389-413).                                          *)
ChildFetched(o, k, commentsData, last) ==
    LET built == [o.built EXCEPT ![k] = withComments(cleanIssue(o.search[k]), commentsData)]
    IN [o EXCEPT !.comments[k] = commentsData,
                 !.built = built,
                 !.order = Append(@, k),
                 !.state = IF last THEN "done" ELSE @,
                 !.result = IF last THEN Success(TextBody(<<>>)) ELSE @,
                 !.returned = IF last THEN built ELSE @]

\* (mutant: a child whose comments fetch failed is returned without comments)
ChildFailedTolerated(o, k, r, last) ==
    LET built == [o.built EXCEPT ![k] = cleanIssue(o.search[k])]
    IN [o EXCEPT !.built = built,
                 !.order = Append(@, k),
                 !.state = IF last THEN "done" ELSE @,
                 !.result = IF last THEN Success(TextBody(<<>>)) ELSE @,
                 !.returned = IF last THEN built ELSE @]

(* getEpicChildren lines 389-413: the comments fetch of child k has thrown *)
(* r; Promise.all rejects and the operation throws with it                 *)
ChildFailed(o, k, r, last) ==
    [o EXCEPT !.state = "done", !.result = r, !.order = Append(@, k)]

(* Request i has run up to state s.  If that settles its promise, the code *)
(* awaiting it runs in the same turn:                                      *)
(*   fetchJson / addAttachment: the operation returns or throws;           *)
(*   getIssueWithComments: Promise.all rejects with the first rejection    *)
(*     (lines 436-449); once both are fulfilled the issue is built and,    *)
(*     if it has an epic link, the epic fetch is issued (lines 451-469);   *)
(*     the epic fetch's failure is absorbed (lines 466-473).               *)
Settle(i, s) ==
    LET p == s.p IN
    IF p.pc # "done" \/ op.state \in {"idle", "done"}
    THEN Commit(i, s) /\ op' = op
    ELSE IF op.state = "single"
    THEN Commit(i, s) /\ op' = [op EXCEPT !.state = "done", !.result = p.result]
    ELSE IF op.state = "epic"
    THEN /\ Commit(i, s)
         /\ op' = EpicLookup(op, p.result)
    ELSE IF op.state = "search"
    THEN IF p.result.kind = "error"
         THEN Commit(i, s) /\ op' = [op EXCEPT !.state = "done", !.result = p.result]
         ELSE \E issues \in ChildLists :
                IF issues = <<>>
                THEN /\ Commit(i, s)
                     /\ op' = [op EXCEPT !.state = "done",
                                         !.result = Success(TextBody(<<>>))]
                ELSE LET Fetch(t, k) ==
                             RunRequest(St(t.file,
                                 NewRequest(t.file, "json",
                                     [path |-> "comment", issue |-> issues[k].key], <<>>),
                                 t.issued))
                         a == Fetch(s, 1)
                         b == IF Len(issues) > 1 THEN Fetch(a, 2)
                              ELSE St(a.file, proc[3], a.issued)
                     IN /\ proc' = [proc EXCEPT ![i] = p, ![2] = a.p, ![3] = b.p]
                        /\ tokenFile' = b.file
                        /\ issued' = b.issued
                        /\ op' = [op EXCEPT !.state = "children", !.search = issues,
                                            !.comments = [k \in DOMAIN issues |-> <<>>],
                                            !.built = [k \in DOMAIN issues |-> Unbuilt]]
    ELSE IF op.state = "children"
    THEN LET k == i - 1
             last == \A j \in DOMAIN op.search \ {k} : proc[j + 1].pc = "done"
         IN /\ Commit(i, s)
            /\ IF p.result.kind = "error"
               THEN op' = ChildFailed(op, k, p.result, last)
               ELSE \E commentsData \in ChildComments :
                        op' = ChildFetched(op, k, commentsData, last)
    ELSE \* op.state = "primary"
         IF p.result.kind = "error"
         THEN /\ Commit(i, s)
              /\ op' = [op EXCEPT !.state = "done",
                                  !.result = Failure(PrimaryError(p.result.err, op.issue))]
         ELSE IF \E j \in {1, 2} \ {i} : proc[j].pc # "done"
         THEN Commit(i, s) /\ op' = op
         ELSE \E epicLink \in {"", "EPIC-1"} :
                LET issue == IF i = 1 THEN p.result ELSE proc[1].result IN
                IF epicLink = ""
                THEN /\ Commit(i, s)
                     /\ op' = [op EXCEPT !.state = "done", !.result = issue]
                ELSE LET e == RunRequest(St(s.file,
                                  NewRequest(s.file, "json",
                                             [path |-> "issue", issue |-> epicLink], <<>>),
                                  s.issued))
                     IN /\ proc' = [proc EXCEPT ![i] = p, ![3] = e.p]
                        /\ tokenFile' = e.file
                        /\ issued' = e.issued
                        /\ op' = [op EXCEPT !.state = "epic", !.result = issue,
                                            !.epicLink = epicLink]

(* fetchJson(url, init): searchIssues, createIssue, updateIssue, ... *)
StartFetchJson ==
    /\ startup.service
    /\ op.state = "idle"
    /\ \E r \in JsonRequests :
         /\ Commit(1, RunRequest(St(tokenFile, NewRequest(tokenFile, "json", r[1], r[2]), issued)))
         /\ op' = [op EXCEPT !.name = "fetchJson", !.issue = r[1].issue, !.state = "single"]
    /\ UNCHANGED <<content, startup, authType, now, persisted, removed>>

(* addAttachment(issueKey, file, filename) *)
StartAddAttachment ==
    /\ startup.service
    /\ op.state = "idle"
    /\ \E id \in {"TEST-1"} :
         /\ Commit(1, RunRequest(St(tokenFile,
                 NewRequest(tokenFile, "attachment", [path |-> "attachments", issue |-> id], <<>>),
                 issued)))
         /\ op' = [op EXCEPT !.name = "addAttachment", !.issue = id, !.state = "single"]
    /\ UNCHANGED <<content, startup, authType, now, persisted, removed>>

\* (mutant: the comments fetch is not started with the issue fetch)
StartGetIssueWithCommentsSequential ==
    /\ startup.service
    /\ op.state = "idle"
    /\ \E id \in IssueIds :
         /\ Commit(1, RunRequest(St(tokenFile,
                 NewRequest(tokenFile, "json", [path |-> "issue", issue |-> id], <<>>),
                 issued)))
         /\ op' = [op EXCEPT !.name = "getIssueWithComments", !.issue = id,
                             !.state = "primary"]
    /\ UNCHANGED <<content, startup, authType, now, persisted, removed>>

(* getEpicChildren(epicKey): the search for the children (request 1) *)
StartGetEpicChildren ==
    /\ startup.service
    /\ op.state = "idle"
    /\ Commit(1, RunRequest(St(tokenFile,
            NewRequest(tokenFile, "json", [path |-> "search", issue |-> ""], <<>>),
            issued)))
    /\ op' = [op EXCEPT !.name = "getEpicChildren", !.issue = "EPIC-1", !.state = "search"]
    /\ UNCHANGED <<content, startup, authType, now, persisted, removed>>

(* getIssueWithComments(issueId): the issue fetch (request 1) and the      *)
(* comments fetch (request 2) are started together (lines 436-439)         *)
StartGetIssueWithComments ==
    /\ startup.service
    /\ op.state = "idle"
    /\ \E id \in IssueIds :
         LET a == RunRequest(St(tokenFile,
                     NewRequest(tokenFile, "json", [path |-> "issue", issue |-> id], <<>>),
                     issued))
             b == RunRequest(St(a.file,
                     NewRequest(a.file, "json", [path |-> "comment", issue |-> id], <<>>),
                     a.issued))
         IN /\ proc' = [proc EXCEPT ![1] = a.p, ![2] = b.p]
            /\ tokenFile' = b.file
            /\ issued' = b.issued
            /\ op' = [op EXCEPT !.name = "getIssueWithComments", !.issue = id,
                                !.state = "primary"]
    /\ UNCHANGED <<content, startup, authType, now, persisted, removed>>

(* The token endpoint answers request i *)
TokenResponseOf(i, outcomes, writes) ==
    /\ proc[i].pc = "token"
    /\ \E outcome \in outcomes, writeOk \in writes :
         /\ outcome.kind = "ok" => issued < MaxIssued
         /\ LET r == refreshAndStoreTokens(tokenFile, outcome, issued + 1, writeOk)
                p == [proc[i] EXCEPT
                        !.nWrites = IF r.wrote THEN @ + 1 ELSE @,
                        !.storeFailed = @ \/ r.storeFailed,
                        !.lastRefresh = [token |-> r.token, wrote |-> r.wrote,
                                         answer |-> outcome, err |-> r.err, at |-> now],
                        !.save = IF r.wrote \/ r.storeFailed
                                 THEN Saved(tokenFile, r.wrote, r.file, r.err)
                                 ELSE @]
                n == IF outcome.kind = "ok" THEN issued + 1 ELSE issued
            IN /\ Settle(i, AfterRefresh(St(r.file, p, n), r))
               /\ persisted' = IF r.wrote THEN persisted \cup {issued + 1} ELSE persisted
    /\ UNCHANGED <<content, startup, authType, now, removed>>

(* The discovery endpoint answers request i *)
ResourcesResponseOf(i, outcomes, writes) ==
    /\ proc[i].pc = "resources"
    /\ \E outcome \in outcomes, writeOk \in writes :
         Settle(i, AfterResources(
                       St(tokenFile, [proc[i] EXCEPT !.discovered = outcome], issued),
                       outcome, writeOk))
    /\ UNCHANGED <<content, startup, authType, now, persisted, removed>>

(* The issue tracker answers the pending call of request i, or the         *)
(* transport fails (NoResponse)                                            *)
CallResponseOf(i, responses) ==
    /\ proc[i].pc = "call"
    /\ \E r \in responses :
         LET p0 == proc[i]
             p == [p0 EXCEPT
                     !.responses = Append(@, r),
                     !.first = IF p0.inTry THEN @ ELSE r,
                     !.mark = IF p0.inTry THEN @ ELSE <<p0.nToken, p0.nDiscovery, p0.nWrites>>]
             s == St(tokenFile, p, issued)
         IN Settle(i, IF r = NoResponse THEN Throw(s, NetworkFailure)
                      ELSE IF p0.inTry /\ p0.kind = "json" THEN AfterRetryResponse(s, r)
                      ELSE AfterResponse(s, r))
    /\ UNCHANGED <<content, startup, authType, now, persisted, removed>>

TokenResponse(i) == TokenResponseOf(i, TokenOutcomes, BOOLEAN)
ResourcesResponse(i) == ResourcesResponseOf(i, ResourceOutcomes, BOOLEAN)
CallResponse(i) == CallResponseOf(i, Responses \cup {NoResponse})

InProgress == op.state \notin {"idle", "done"}

(* Time passes while an operation is in progress (the time before it is    *)
(* in the expiry times of the initial credential file)                     *)
Tick ==
    /\ InProgress
    /\ now < StartTime + MaxTicks
    /\ now' = now + 1
    /\ UNCHANGED <<content, startup, authType, tokenFile, issued, persisted, removed, op, proc>>

(* The credential file is removed by its owner or by another process (the  *)
(* file outlives the process and is not locked) while an operation is in   *)
(* progress; once in a behaviour                                           *)
RemoveFile ==
    /\ InProgress
    /\ ~removed
    /\ authType = "OAUTH_2.0"
    /\ tokenFile.state # "missing"
    /\ tokenFile' = [MissingFile EXCEPT !.dirMode = tokenFile.dirMode]
    /\ removed' = TRUE
    /\ UNCHANGED <<content, startup, authType, now, issued, persisted, op, proc>>

Next ==
    \/ StartFetchJson
    \/ StartAddAttachment
    \/ \E i \in Procs : TokenResponse(i)
    \/ \E i \in Procs : ResourcesResponse(i)
    \/ \E i \in Procs : CallResponse(i)
    \/ Tick
    \/ RemoveFile

Spec == Init /\ [][Next]_vars


(* getIssueWithComments: two concurrent requests, then the epic fetch.     *)
(* The environment is a part of the one of Spec: the credential file has   *)
(* a usable pair or is missing, the file system accepts every write, and   *)
(* the endpoints give one answer of each sort.                             *)
IssueFiles ==
    {MissingFile,
     Tokens(AccessTok(0), RefreshTok(0), 0, "cloud-0", StartTime + CloudTtl),
     Tokens(AccessTok(0), RefreshTok(0), StartTime + 1, NoCloud, 0),
     \* a pair whose access token has expired when the operation starts
     Tokens(AccessTok(0), RefreshTok(0), StartTime - 1, "cloud-0", StartTime + CloudTtl)}

InitIssue ==
    /\ Init
    /\ tokenFile \in IssueFiles

IssueTokenOutcomes == {TokenOk(0), TokenRejected}
IssueResourceOutcomes ==
    {o \in ResourceOutcomes : o.kind = "http" \/ Len(o.resources) = 3}
IssueResponses == {Response(st, TextBody(<<"t">>)) : st \in {200, 401, 404, 500}}

IssueTokenResponse(i) == TokenResponseOf(i, IssueTokenOutcomes, {TRUE})
IssueResourcesResponse(i) == ResourcesResponseOf(i, IssueResourceOutcomes, {TRUE})
IssueCallResponse(i) == CallResponseOf(i, IssueResponses \cup {NoResponse})

NextIssue ==
    \/ StartGetIssueWithComments
    \/ \E i \in Procs : IssueTokenResponse(i)
    \/ \E i \in Procs : IssueResourcesResponse(i)
    \/ \E i \in Procs : IssueCallResponse(i)
    \/ Tick

SpecIssue == InitIssue /\ [][NextIssue]_vars

(* getIssueWithComments against a provider whose refresh tokens are        *)
(* single-use (README, OAuth 2.0 Behavior): the token endpoint accepts the *)
(* refresh token of the pair it issued last (at first the stored one) and  *)
(* rejects every other; the tracker rejects the stored access token with   *)
(* 401 and accepts every access token issued since; discovery succeeds.    *)
RaceFiles ==
    {Tokens(AccessTok(0), RefreshTok(0), 0, "cloud-0", StartTime + CloudTtl),
     Tokens(AccessTok(0), RefreshTok(0), 0, "cloud-0", StartTime - 1)}

InitRace ==
    /\ Init
    /\ authType = "OAUTH_2.0"
    /\ tokenFile \in RaceFiles

SingleUseOutcome(refreshToken) ==
    IF refreshToken = RefreshTok(issued)
    THEN TokenOk(0)
    ELSE TokenRejected

RaceTokenResponse(i) ==
    /\ proc[i].pc = "token"
    /\ TokenResponseOf(i, {SingleUseOutcome(proc[i].rt)}, {TRUE})

RaceResourcesResponse(i) ==
    ResourcesResponseOf(i, {o \in ResourceOutcomes : o.kind = "ok" /\ Len(o.resources) = 3},
                        {TRUE})

TrackerAnswer(call) ==
    IF call.headers["authorization"] = Bearer(AccessTok(0))
    THEN Response(401, TextBody(<<"t">>))
    ELSE Response(200, TextBody(<<"t">>))

RaceCallResponse(i) ==
    /\ proc[i].pc = "call"
    /\ CallResponseOf(i, {TrackerAnswer(proc[i].calls[Len(proc[i].calls)])})

NextRace ==
    \/ StartGetIssueWithComments
    \/ \E i \in Procs : RaceTokenResponse(i)
    \/ \E i \in Procs : RaceResourcesResponse(i)
    \/ \E i \in Procs : RaceCallResponse(i)

SpecRace == InitRace /\ [][NextRace]_vars

(* getEpicChildren: the search, then the children's comments fetches.  The *)
(* credential file has a usable pair or is missing.                        *)
EpicFiles ==
    {MissingFile,
     Tokens(AccessTok(0), RefreshTok(0), 0, "cloud-0", StartTime + CloudTtl)}

InitEpic ==
    /\ Init
    /\ startup.service
    /\ tokenFile \in EpicFiles

NextEpic ==
    \/ StartGetEpicChildren
    \/ \E i \in Procs : IssueTokenResponse(i)
    \/ \E i \in Procs : IssueResourcesResponse(i)
    \/ \E i \in Procs : IssueCallResponse(i)

SpecEpic == InitEpic /\ [][NextEpic]_vars

(* fetchJson against a tracker that answers with every shape of error     *)
(* body.  The environment is otherwise that of SpecIssue.                  *)
LongText == [i \in 1..(TruncLen + 1) |-> "x"]

ErrorBodies ==
    {JsonBody(<<"e1", "e2">>, "m1", "em"),
     JsonBody(<<>>, "m1", "em"),
     JsonBody(<<>>, "", "em"),
     JsonBody(<<>>, "", ""),
     TextBody(<<"N", "o">>),
     TextBody(<<>>),
     TextBody(LongText)}

ErrorResponses ==
    {Response(st, b) : st \in {400, 401, 404}, b \in ErrorBodies}
    \cup {Response(200, JsonBody(<<>>, "", ""))}

InitError ==
    /\ Init
    /\ startup.service
    /\ tokenFile \in IssueFiles

ErrorCallResponse(i) == CallResponseOf(i, ErrorResponses)

NextError ==
    \/ StartFetchJson
    \/ \E i \in Procs : IssueTokenResponse(i)
    \/ \E i \in Procs : IssueResourcesResponse(i)
    \/ \E i \in Procs : ErrorCallResponse(i)

SpecError == InitError /\ [][NextError]_vars

(* fetchJson against a token endpoint that refuses with every shape of     *)
(* body, and a file system that may refuse the write                       *)
RefreshBodies ==
    {TokenJson("invalid refresh token", "invalid_grant"),
     TokenJson("", "invalid_grant"),
     TokenJson("", ""),
     TokenText(<<"N", "o">>),
     TokenText(<<>>),
     TokenText(LongText)}

RefreshOutcomes ==
    {TokenOk(0), TokenIncomplete, TokenUnreachable}
    \cup {TokenOutcome("http", 0, st, b) : st \in {400, 403}, b \in RefreshBodies}

InitRefresh ==
    /\ Init
    /\ startup.service
    /\ tokenFile \in IssueFiles

RefreshTokenResponse(i) == TokenResponseOf(i, RefreshOutcomes, BOOLEAN)

NextRefresh ==
    \/ StartFetchJson
    \/ \E i \in Procs : RefreshTokenResponse(i)
    \/ \E i \in Procs : IssueResourcesResponse(i)
    \/ \E i \in Procs : IssueCallResponse(i)

SpecRefresh == InitRefresh /\ [][NextRefresh]_vars

(* getIssueWithComments against a tracker whose error message may itself   *)
(* hold the text "(Status: 404)".  The environment is that of SpecIssue.   *)
NotFoundResponses ==
    {Response(200, TextBody(<<"t">>)),
     Response(404, TextBody(<<"t">>)),
     Response(500, TextBody(<<"t">>)),
     Response(500, JsonBody(<<>>, "(Status: 404)", ""))}

NotFoundCallResponse(i) == CallResponseOf(i, NotFoundResponses \cup {NoResponse})

NextNotFound ==
    \/ StartGetIssueWithComments
    \/ \E i \in Procs : IssueTokenResponse(i)
    \/ \E i \in Procs : IssueResourcesResponse(i)
    \/ \E i \in Procs : NotFoundCallResponse(i)

SpecNotFound == InitIssue /\ [][NextNotFound]_vars

(* fetchJson and addAttachment when every network call completes: a       *)
(* pending fetch of the token endpoint, of the discovery endpoint or of    *)
(* the issue tracker is answered or fails.  The environment is that of     *)
(* SpecIssue.                                                              *)
NextFair ==
    \/ StartFetchJson
    \/ StartAddAttachment
    \/ \E i \in Procs : IssueTokenResponse(i)
    \/ \E i \in Procs : IssueResourcesResponse(i)
    \/ \E i \in Procs : IssueCallResponse(i)
    \/ Tick

Fairness ==
    \A i \in Procs :
        /\ WF_vars(IssueTokenResponse(i))
        /\ WF_vars(IssueResourcesResponse(i))
        /\ WF_vars(IssueCallResponse(i))

FairSpec == InitRefresh /\ [][NextFair]_vars /\ Fairness

-----------------------------------------------------------------------------
(* The cleaning of response bodies, on its own *)

InitContent ==
    /\ \E connectionType \in {"Api_Token"},
          config \in {Config("JIRA_BASE_URL", "user@domain.net", "api-token", "", "", "")} :
          LET created == createAuthStrategy(connectionType, config) IN
          /\ startup = [connectionType |-> connectionType, config |-> config,
                        error |-> created.error,
                        service |-> ServiceConstructed(created.type, config.baseUrl)]
          /\ authType = created.type
    /\ tokenFile = MissingFile
    /\ now = StartTime
    /\ issued = 0
    /\ persisted = {}
    /\ removed = FALSE
    /\ op = NoOp
    /\ proc = [i \in Procs |-> IdleProc]
    /\ content \in RawContents

(* searchIssues line 362: an issue of the search response is cleaned *)
SearchIssuesClean ==
    /\ content.stage = "raw"
    /\ content' = [content EXCEPT !.stage = "searched", !.issue = cleanIssue(content.raw)]
    /\ UNCHANGED <<startup, authType, tokenFile, now, issued, persisted, removed, op, proc>>

(* getEpicChildren lines 394-409: a child and its comments are cleaned *)
EpicChildClean ==
    /\ content.stage = "raw"
    /\ content' = [content EXCEPT
                     !.stage = "child",
                     !.issue = withComments(cleanIssue(content.raw), content.comments)]
    /\ UNCHANGED <<startup, authType, tokenFile, now, issued, persisted, removed, op, proc>>

(* getIssueWithComments lines 451-462: the issue and its comments are cleaned *)
IssueWithCommentsClean ==
    /\ content.stage = "raw"
    /\ content' = [content EXCEPT
                     !.stage = "assembled",
                     !.issue = withComments(cleanIssue(content.raw), content.comments)]
    /\ UNCHANGED <<startup, authType, tokenFile, now, issued, persisted, removed, op, proc>>

NextContent ==
    \/ SearchIssuesClean
    \/ EpicChildClean
    \/ IssueWithCommentsClean

SpecContent == InitContent /\ [][NextContent]_vars

-----------------------------------------------------------------------------
(* Properties *)

Finished == {i \in Procs : proc[i].pc = "done"}

OAuth == authType = "OAUTH_2.0"

Status401or403(response) == response.status = 401 \/ response.status = 403

(* what the caller gets when the request ends with response r *)
Outcome(p, r) ==
    IF r = NoResponse THEN Failure(NetworkFailure)
    ELSE IF Ok(r) THEN Success(r.body)
    ELSE Failure(handleFetchError(r, p.url))

(* the forced refresh of the 401/403 recovery has succeeded *)
Recovered(p) == OAuth /\ Status401or403(p.first) /\ p.forced = "ok"

(* C1: in OAuth2 mode, when the first attempt gets 401 or 403 and the      *)
(* forced refresh succeeds, the call is reissued exactly once with headers *)
(* built from the new access token and the second result is the request's  *)
(* result; no request issues its target call more than twice.              *)
C1_RetryOnceSecondResultFinal ==
    \A i \in Procs :
        LET p == proc[i] IN
        /\ Len(p.calls) <= 2
        /\ (p.pc = "done" /\ Recovered(p)) =>
               /\ Len(p.calls) = 2
               /\ p.calls[2].headers["authorization"] = Bearer(p.newToken)
               /\ Len(p.responses) = 2
               /\ p.result = Outcome(p, p.responses[2])

(* C2: in OAuth2 mode, a request whose first attempt is an authorization   *)
(* failure and whose retried attempt (after a successful refresh) fails    *)
(* too raises the error built from the retried attempt's response.         *)
C2_RetriedFailureSurfaced ==
    \A i \in Finished :
        LET p == proc[i] IN
        (Recovered(p) /\ Len(p.responses) = 2 /\ p.responses[2] # NoResponse
            /\ ~Ok(p.responses[2]))
        => p.result = Failure(handleFetchError(p.responses[2], p.url))

(* The case of C3: stored unexpired access token at the start, 401 on the  *)
(* first attempt, one refresh in the whole request, success afterwards     *)
C3_Case(p) ==
    /\ p.pc = "done"
    /\ OAuth
    /\ p.startValid
    /\ p.first.status = 401
    /\ p.nToken = 1
    /\ p.forced = "ok"
    /\ Len(p.responses) = 2
    /\ Ok(p.responses[2])

(* C3 as claimed: ... the request returns the second attempt's body and    *)
(* writes the credential file exactly once.                                *)
C3_ExactlyOneWrite ==
    \A i \in Procs :
        C3_Case(proc[i]) =>
            /\ proc[i].result = Success(proc[i].responses[2].body)
            /\ proc[i].nWrites = 1

(* C3 as amended: the request returns the second attempt's body; the file  *)
(* is written once by the refresh and once more for every lookup of the    *)
(* service-instance identifier: no lookup for a JSON request that starts   *)
(* with a cached unexpired identifier, one lookup for a JSON request that  *)
(* starts without, and for an attachment upload one lookup more (its retry *)
(* resolves the identifier again, and the refresh has dropped it).         *)
C3_OneWritePerRefreshAndLookup ==
    \A i \in Procs :
        LET p == proc[i] IN
        C3_Case(p) =>
            /\ p.result = Success(p.responses[2].body)
            /\ p.nWrites = 1 + p.nDiscovery
            /\ p.nDiscovery = (IF p.startCached THEN 0 ELSE 1)
                              + (IF p.kind = "attachment" THEN 1 ELSE 0)

C3_Witness ==
    \E i \in Procs :
        /\ C3_Case(proc[i])
        /\ proc[i].kind = "json"
        /\ ~proc[i].startCached
        /\ proc[i].nWrites = 2

BearerIds(p) ==
    {k \in 0..issued : \E c \in 1..Len(p.calls) :
        p.calls[c].headers["authorization"] = Bearer(AccessTok(k))}

(* C4: a refresh returns an access token only when it has written the new  *)
(* pair to the credential file; when the write fails the refresh returns   *)
(* no token, and no request carries a token that was not written (pair 0   *)
(* is the pair found in the file at the start).                            *)
C4_PersistedBeforeReturned ==
    \A i \in Procs :
        LET p == proc[i] IN
        /\ p.lastRefresh.token # EmptyToken => p.lastRefresh.wrote
        /\ p.newToken # EmptyToken => \E k \in persisted : p.newToken = AccessTok(k)
        /\ BearerIds(p) \subseteq persisted \cup {0}

C4_Witness ==
    \E i \in Procs :
        /\ proc[i].storeFailed
        /\ proc[i].lastRefresh.token # EmptyToken
        /\ BearerIds(proc[i]) \ {0} # {}

IsStorageError(e) == \E n \in 1..Len(e.msg) : e.msg[n] = "Failed to store tokens"

(* C5: a failure to write the credential file during a token refresh is    *)
(* raised to the caller of the operation as a storage error, on every path *)
C5_StoreFailureRaised ==
    \A i \in Finished :
        proc[i].storeFailed =>
            /\ proc[i].result.kind = "error"
            /\ IsStorageError(proc[i].result.err)

(* C6: in OAuth2 mode, when the first attempt gets 401 or 403 and the      *)
(* forced refresh fails, no second call is issued and the error raised is  *)
(* the one built from the first response.                                  *)
C6_FailedRefreshSurfacesOriginal ==
    \A i \in Procs :
        LET p == proc[i] IN
        p.forced = "failed" =>
            /\ p.pc = "done"
            /\ Len(p.calls) = 1
            /\ Len(p.responses) = 1
            /\ p.result.kind = "error"
            /\ p.result.err.tag = "JIRA API Error"
            /\ p.result.err.status = p.responses[1].status
            /\ p.result.err.msg = <<"JIRA API Error">> \o ErrorMessage(p.responses[1])

(* both ways a forced refresh fails are reached: no stored refresh token   *)
(* (no call to the token endpoint after the first response), and an error  *)
(* of the token endpoint                                                   *)
C6_Witness ==
    \E i \in Procs :
        /\ proc[i].forced = "failed"
        /\ proc[i].nToken > proc[i].mark[1]
        /\ Status401or403(proc[i].first)

C6_WitnessNoStoredToken ==
    \E i \in Procs :
        /\ proc[i].forced = "failed"
        /\ proc[i].nToken = proc[i].mark[1]

(* a failure that is not eligible for the recovery *)
C7_Case(p) ==
    /\ p.pc = "done"
    /\ p.first # NoResponse
    /\ ~Ok(p.first)
    /\ ~(Status401or403(p.first) /\ OAuth)

(* C7 as claimed: in every failure case other than 401/403 in OAuth2 mode, *)
(* exactly one HTTP call is issued, no token refresh is performed, the     *)
(* credential file is not written, and the failure is raised.              *)
C7_NoRefreshNoWrite ==
    \A i \in Procs :
        LET p == proc[i] IN
        C7_Case(p) =>
            /\ Len(p.calls) = 1
            /\ p.nToken = 0
            /\ p.nDiscovery = 0
            /\ p.nWrites = 0
            /\ p.result.kind = "error"

(* C7 as amended: refresh-and-retry happens only after a 401/403 on the    *)
(* first attempt in OAuth2 mode.  In every other failure case one call to  *)
(* the target path is issued, and after its response no token refresh, no  *)
(* discovery call and no write of the credential file happens; the failure *)
(* built from that response is raised.  In static-token mode no refresh,   *)
(* discovery call or write happens at all; in OAuth2 mode they can happen  *)
(* before the call, while the base URL and the headers are resolved.       *)
C7_OnlyAuthFailureRecovers ==
    \A i \in Procs :
        LET p == proc[i] IN
        /\ (Len(p.calls) > 1 \/ p.forced # "none" \/ p.inTry)
               => (OAuth /\ Status401or403(p.first))
        /\ C7_Case(p) =>
               /\ Len(p.calls) = 1
               /\ <<p.nToken, p.nDiscovery, p.nWrites>> = p.mark
               /\ p.result = Failure(handleFetchError(p.first, p.url))
               /\ ~OAuth => p.mark = <<0, 0, 0>>

C7_Witness ==
    \E i \in Procs :
        /\ C7_Case(proc[i])
        /\ OAuth
        /\ proc[i].first.status = 500
        /\ proc[i].nToken = 1
        /\ proc[i].nWrites = 2

StrategyAuthorization(value) ==
    IF OAuth THEN \E k \in 0..issued : value = Bearer(AccessTok(k))
    ELSE value = BasicAuth

C9_IssueNotFoundOn404 ==
    \A i \in Finished :
        LET p == proc[i] IN
        (p.url.issue # "" /\ p.kind = "json" /\ Len(p.responses) = 1
            /\ p.responses[1].status = 404)
        => /\ p.result.kind = "error"
           /\ p.result.err.tag = "Issue not found"
           /\ p.result.err.msg = <<"Issue not found: ", p.url.issue>>

(* C10: getIssueWithComments(id) whose single-issue fetch returns 404      *)
(* raises 'Issue not found: <id>'; no issue is returned and no epic lookup *)
(* is issued.                                                              *)
C10_IssueFetch404 ==
    (/\ op.name = "getIssueWithComments"
     /\ proc[1].pc = "done"
     /\ proc[1].responses # <<>>
     /\ proc[1].responses[Len(proc[1].responses)].status = 404)
    => /\ op.state = "done"
       /\ op.result = Failure(Err("Issue not found", <<"Issue not found: ", op.issue>>, 0))
       /\ proc[3].pc = "idle"

(* the legacy client's network branch: 'JIRA API Error: Network Error' *)
NetworkError == Err("JIRA API Error", <<"JIRA API Error", "Network Error">>, 0)

(* C11: when the transport obtains no response for a call, the request     *)
(* raises the generic 'Network Error' API error, which has no status code, *)
(* in both authentication modes, and no further call is issued.            *)
C11_NetworkErrorRaised ==
    \A i \in Procs :
        LET p == proc[i] IN
        (p.responses # <<>> /\ p.responses[Len(p.responses)] = NoResponse) =>
            /\ p.pc = "done"
            /\ Len(p.calls) = Len(p.responses)
            /\ p.result = Failure(NetworkError)

(* C12: an access-token resolution takes exactly one of three courses,     *)
(* chosen from the loaded state: no usable stored state, one refresh with  *)
(* the bootstrap refresh token; stored state whose expiry has passed, one  *)
(* refresh with the stored refresh token; otherwise the stored access      *)
(* token is returned with no network call and no write of the file.        *)
C12_OneOfThreeOutcomes ==
    \A i \in Procs :
        LET r == proc[i].res IN
        /\ r.case = "absent" => r.submitted = <<initialRefreshToken>>
        /\ r.case = "expired" => r.submitted = <<r.storedRt>>
        /\ r.case = "valid" =>
               /\ r.submitted = <<>>
               /\ r.returned = r.storedAt
               /\ r.end = r.mark

(* C13: within one access-token resolution the token endpoint is called at *)
(* most once: when the refresh fails, its error is what the resolution     *)
(* raises and no other refresh is attempted with any refresh token.        *)
C13_OneRefreshPerResolution ==
    \A i \in Procs :
        LET r == proc[i].res IN
        /\ Len(r.submitted) <= 1
        /\ r.firstErr # NoError =>
               /\ proc[i].pc # "token"
               /\ r.raised = r.firstErr

(* C14: the bootstrap refresh token is submitted to the token endpoint     *)
(* only when no usable stored state can be loaded; whenever a stored pair  *)
(* can be loaded, the refresh token submitted is the stored one.           *)
C14_BootstrapOnlyWithoutStoredState ==
    \A i \in Procs : ~proc[i].badSubmit

(* C15: the service-instance identifier is cached for one hour.  Once a    *)
(* getCloudId call has succeeded, no getCloudId call made less than an     *)
(* hour later contacts the discovery endpoint or returns another           *)
(* identifier, whatever happened in between; and an identifier is taken    *)
(* from the cache only while the hour of its entry has not passed.         *)
C15_CloudIdCachedOneHour ==
    \A i \in Procs :
        /\ ~proc[i].relookup
        /\ proc[i].cloud.from = "cache" => proc[i].cloud.at < proc[i].cloud.exp

C17_NoJiraResourceIsFatal ==
    \A i \in Procs :
        LET p == proc[i]
            l == p.discovered.resources
        IN
        p.discovered.kind = "ok" =>
            IF \A n \in 1..Len(l) : ~HasJiraScope(l[n])
            THEN /\ p.pc = "done"
                 /\ p.result = Failure(ResourceError(p.discovered))
                 /\ p.calls = <<>>
            ELSE \E n \in 1..Len(l) :
                    /\ HasJiraScope(l[n])
                    /\ \A m \in 1..(n - 1) : ~HasJiraScope(l[m])
                    /\ p.cloud.from = "lookup" => p.cloud.id = l[n].id

Usable(file) ==
    /\ file.state = "json"
    /\ file.access_token # EmptyToken
    /\ file.refresh_token # EmptyToken

(* C18: loading the credential file never raises.  It yields a token state *)
(* exactly when the file exists, parses and holds a non-empty access token *)
(* and a non-empty refresh token; a missing, unreadable or unparsable file *)
(* and every other shape yield absent state, and an access-token           *)
(* resolution that loads absent state submits the bootstrap refresh token. *)
(* (The forced refresh after a 401/403 is not a resolution: with absent    *)
(* state it raises 'No stored refresh token', see C6.)                     *)
C18_LoadNeverRaises ==
    /\ loadStoredTokens(tokenFile) = (IF Usable(tokenFile) THEN tokenFile ELSE Null)
    /\ \A i \in Procs :
          LET r == proc[i].res IN
          r.case # "none" =>
              /\ (r.case = "absent") <=> ~Usable(r.file)
              /\ r.case = "absent" =>
                     /\ r.submitted # <<>>
                     /\ r.submitted[1] = initialRefreshToken

(* a file that parses but has no refresh token was loaded as absent state  *)
(* and the bootstrap refresh has returned a token                          *)
C18_Witness ==
    \E i \in Procs :
        LET r == proc[i].res IN
        /\ r.case = "absent"
        /\ r.file.state = "json"
        /\ r.file.refresh_token = EmptyToken
        /\ r.submitted = <<initialRefreshToken>>
        /\ r.returned # EmptyToken

(* C19: after every successful save the credential file is readable and    *)
(* writable by its owner only, whether the save created it or it already   *)
(* existed, and a directory the save created is owner-only; a save that    *)
(* cannot write raises a storage error.                                    *)
C19_SavedFileOwnerOnly ==
    \A i \in Procs :
        LET v == proc[i].save IN
        v.done =>
            IF v.ok
            THEN /\ v.mode = FileMode
                 /\ v.createdDir => v.dirMode = DirMode
            ELSE IsStorageError(v.err)

(* the configuration lacks something the selected connection type needs,   *)
(* or the connection type is not one of the two                            *)
Misconfigured ==
    LET c == startup.config IN
    CASE startup.connectionType = "Api_Token" ->
            c.email = "" \/ c.apiToken = "" \/ c.baseUrl = ""
      [] startup.connectionType = "Oauth_2.0" ->
            c.clientId = "" \/ c.clientSecret = "" \/ c.refreshToken = ""
      [] OTHER -> TRUE

(* C20: construction fails fast with a configuration error, and no         *)
(* strategy and no service exist, when the configuration lacks a field the *)
(* connection type needs or the connection type is unknown; otherwise the  *)
(* strategy's kind is the one of the connection type, in every state.      *)
C20_ConstructionFailsFast ==
    IF Misconfigured
    THEN /\ authType = "none"
         /\ startup.error.tag = "Configuration"
         /\ ~startup.service
         /\ op = NoOp
         /\ \A i \in Procs : proc[i] = IdleProc
    ELSE /\ authType = (IF startup.connectionType = "Api_Token"
                        THEN "API_TOKEN" ELSE "OAUTH_2.0")
         /\ startup.error = NoError
         /\ startup.service

(* static-token mode with the email and the token but no base URL *)
C20_Witness ==
    /\ startup.connectionType = "Api_Token"
    /\ startup.config.email # ""
    /\ startup.config.apiToken # ""
    /\ startup.config.baseUrl = ""
    /\ authType = "none"
    /\ startup.error = ConfigError("JIRA_BASE_URL is required")

(* C21: getIssueWithComments never fails because of the epic-summary       *)
(* lookup: once the issue has been built and its epic fetch has settled,   *)
(* whatever the outcome, the operation returns the issue as it was built   *)
(* from the issue fetch, and a failed lookup leaves the summary unresolved *)
C21_EpicLookupNeverFails ==
    (op.name = "getIssueWithComments" /\ op.state = "done" /\ op.epicLink # "")
        => /\ proc[3].pc = "done"
           /\ op.result.kind = "ok"
           /\ op.result = proc[1].result
           /\ (proc[3].result.kind = "error" => op.epicSummary = "unresolved")
           /\ (proc[3].result.kind = "ok" => op.epicSummary = "resolved")

C21_Witness ==
    /\ op.name = "getIssueWithComments" /\ op.state = "done" /\ op.epicLink # ""
    /\ proc[3].result.kind = "error"
    /\ proc[3].result.err.status = 404
    /\ op.result.kind = "ok"

(* Content: the stages at which the issue has been built *)
Built == content.stage \in {"searched", "child", "assembled"}
Merged == content.stage \in {"child", "assembled"}

(* the issue at the end of a link that is not the issue being cleaned *)
OtherEnd(link) == IF link.inwardIssue # NoIssue THEN link.inwardIssue ELSE link.outwardIssue

(* the mentions of the comments before the i-th, counted *)
RECURSIVE MentionsBefore(_, _)
MentionsBefore(comments, i) ==
    IF i <= 1 THEN 0
    ELSE MentionsBefore(comments, i - 1) + Len(comments[i - 1].mentions)

(* C22: relatedIssues is, in order, the mentions of the description, one   *)
(* formal-link entry per raw link in list order, and the mentions of each  *)
(* comment in comment order; it is always a list (empty when nothing       *)
(* contributes), and merging the comments' mentions leaves the entries of  *)
(* the description and of the links unchanged as a prefix                  *)
C22_RelatedIssuesInOrder ==
    Built =>
        LET r == content.issue.relatedIssues
            a == extractIssueMentions(content.raw.description, "description", Undefined)
            links == content.raw.issuelinks
            n == Len(links)
            cs == IF Merged THEN content.comments ELSE <<>>
        IN /\ DOMAIN r = 1..(Len(a) + n + MentionsBefore(content.issue.comments, Len(cs) + 1))
           /\ \A i \in 1..Len(a) : r[i] = a[i]
           /\ \A i \in 1..n :
                /\ r[Len(a) + i].type = "link"
                /\ r[Len(a) + i].key = OtherEnd(links[i]).key
           /\ Len(content.issue.comments) = Len(cs)
           /\ \A i \in 1..Len(cs) :
                LET own == extractIssueMentions(cs[i].body, "comment", cs[i].id)
                IN /\ content.issue.comments[i].mentions = own
                   /\ \A j \in 1..Len(own) :
                        r[Len(a) + n + MentionsBefore(content.issue.comments, i) + j] = own[j]
           /\ SubSeq(r, 1, Len(a) + n) = cleanIssue(content.raw).relatedIssues

C22_Witness ==
    /\ content.stage = "assembled"
    /\ extractIssueMentions(content.raw.description, "description", Undefined) # <<>>
    /\ Len(content.raw.issuelinks) = 2
    /\ Len(content.comments) = 2
    /\ \A i \in 1..2 : content.issue.comments[i].mentions # <<>>
    /\ Len(content.issue.relatedIssues) > Len(cleanIssue(content.raw).relatedIssues)

(* the issue has one formal link, an inward 'is blocked by' one, and its   *)
(* description mentions one key, which is not the key of the linked issue  *)
OneBlockerOneMention ==
    /\ content.stage = "searched"
    /\ Len(content.raw.issuelinks) = 1
    /\ content.raw.issuelinks[1].inwardIssue # NoIssue
    /\ content.raw.issuelinks[1].type.inward = "is blocked by"
    /\ LET a == extractIssueMentions(content.raw.description, "description", Undefined)
       IN Len(a) = 1 /\ a[1].key # content.raw.issuelinks[1].inwardIssue.key

(* C23 as stated: with one formal 'is blocked by' link and a description   *)
(* mentioning a different key, relatedIssues has exactly two entries, and  *)
(* the formal-link entry comes before the mention entry                    *)
C23_LinkBeforeMention ==
    OneBlockerOneMention =>
        LET r == content.issue.relatedIssues
        IN /\ Len(r) = 2
           /\ r[1].type = "link" /\ r[1].relationship = "is blocked by"
           /\ r[2].type = "mention"

(* C23: with one formal 'is blocked by' link and a description mentioning  *)
(* a different key, relatedIssues has exactly two entries: the mention     *)
(* entry, and after it the formal-link entry with relationship             *)
(* 'is blocked by'                                                         *)
C23_MentionBeforeLink ==
    OneBlockerOneMention =>
        LET r == content.issue.relatedIssues
            link == content.raw.issuelinks[1]
        IN /\ Len(r) = 2
           /\ r[1].type = "mention" /\ r[1].source = "description"
           /\ r[1].key # link.inwardIssue.key
           /\ r[2].type = "link" /\ r[2].relationship = "is blocked by"
           /\ r[2].key = link.inwardIssue.key

C23_Witness ==
    /\ OneBlockerOneMention
    /\ content.raw.issuelinks[1].type.outward = "blocks"
    /\ Len(content.issue.relatedIssues) = 2

(* Document order.  A node is named by its path, the indices leading to it *)
(* from the top-level list; a node precedes its descendants and everything *)
(* under a later sibling (depth-first, left to right).                     *)
RECURSIVE PathsOf(_)
PathsOf(nodes) ==
    UNION {{<<i>>} \cup {<<i>> \o p : p \in PathsOf(nodes[i].content)} : i \in DOMAIN nodes}

RECURSIVE NodeAt(_, _)
NodeAt(nodes, path) ==
    IF Len(path) = 1 THEN nodes[path[1]]
    ELSE NodeAt(nodes[path[1]].content, Tail(path))

Precedes(p, q) ==
    \E k \in 1..Len(q) :
        /\ \A j \in 1..(k - 1) : j <= Len(p) /\ p[j] = q[j]
        /\ Len(p) >= k - 1
        /\ (Len(p) = k - 1 \/ p[k] < q[k])

RECURSIVE InOrder(_)
InOrder(paths) ==
    IF paths = {} THEN <<>>
    ELSE LET first == CHOOSE p \in paths : \A q \in paths \ {p} : Precedes(p, q)
         IN <<first>> \o InOrder(paths \ {first})

(* the issue keys a node refers to by itself, left to right *)
KeysAt(node) ==
    IF node.type = "inlineCard"
    THEN (IF UrlMatch(node.url) # Undefined THEN <<UrlMatch(node.url)>> ELSE <<>>)
    ELSE IF node.type = "text" THEN TextMatches(node.text)
    ELSE <<>>

RECURSIVE Flatten(_)
Flatten(seqs) == IF seqs = <<>> THEN <<>> ELSE Head(seqs) \o Flatten(Tail(seqs))

(* every occurrence of an issue key in a document, in document order *)
Occurrences(nodes) ==
    LET order == InOrder(PathsOf(nodes))
    IN Flatten([i \in DOMAIN order |-> KeysAt(NodeAt(nodes, order[i]))])

Range(seq) == {seq[i] : i \in DOMAIN seq}

(* C24: nothing is removed across groups: the number of relatedIssues      *)
(* entries with key K is 1 if the description mentions K, plus the number  *)
(* of formal links to K, plus the number of comments that mention K        *)
C24_NoDedupAcrossGroups ==
    Built =>
        LET r == content.issue.relatedIssues
            links == content.raw.issuelinks
            cs == IF Merged THEN content.comments ELSE <<>>
        IN \A K \in IssueKeys :
             Cardinality({i \in DOMAIN r : r[i].key = K})
               = (IF K \in Range(Occurrences(content.raw.description)) THEN 1 ELSE 0)
                 + Cardinality({i \in DOMAIN links : OtherEnd(links[i]).key = K})
                 + Cardinality({i \in DOMAIN cs : K \in Range(Occurrences(cs[i].body))})

C24_Witness ==
    /\ content.stage = "assembled"
    /\ "TEST-2" \in Range(Occurrences(content.raw.description))
    /\ \E i \in DOMAIN content.raw.issuelinks :
         OtherEnd(content.raw.issuelinks[i]).key = "TEST-2"
    /\ Len(content.comments) = 2
    /\ \A i \in 1..2 : "TEST-2" \in Range(Occurrences(content.comments[i].body))
    /\ Cardinality({i \in DOMAIN content.issue.relatedIssues :
                       content.issue.relatedIssues[i].key = "TEST-2"}) = 4

FirstIndex(seq, x) == Min({i \in DOMAIN seq : seq[i] = x})

(* mentions is what one call of extractIssueMentions may return for nodes: *)
(* one entry per key that occurs, in the order of the first occurrences    *)
FirstOccurrences(mentions, nodes) ==
    LET occ == Occurrences(nodes)
    IN /\ \A i, j \in DOMAIN mentions : i # j => mentions[i].key # mentions[j].key
       /\ {mentions[i].key : i \in DOMAIN mentions} = Range(occ)
       /\ \A i, j \in DOMAIN mentions :
            i < j => FirstIndex(occ, mentions[i].key) < FirstIndex(occ, mentions[j].key)
       /\ \A i \in DOMAIN mentions : mentions[i].type = "mention"

(* C25: one call of extractIssueMentions never yields two entries with the *)
(* same key, and lists the keys in the order of their first occurrence in  *)
(* the depth-first, document-order traversal: for the description's call   *)
(* (all of relatedIssues when there are no links and no comments) and for  *)
(* each comment's call                                                     *)
C25_MentionsUniqueInFirstOccurrenceOrder ==
    /\ (content.stage = "searched" /\ content.raw.issuelinks = <<>>)
          => FirstOccurrences(content.issue.relatedIssues, content.raw.description)
    /\ Merged
          => \A i \in DOMAIN content.comments :
                FirstOccurrences(content.issue.comments[i].mentions, content.comments[i].body)

C25_Witness ==
    /\ content.stage = "searched" /\ content.raw.issuelinks = <<>>
    /\ LET d == content.raw.description
       IN /\ Cardinality({p \in PathsOf(d) : /\ NodeAt(d, p).type = "inlineCard"
                                              /\ KeysAt(NodeAt(d, p)) = <<"TEST-2">>}) = 2
          /\ \E p \in PathsOf(d) : /\ NodeAt(d, p).type = "text"
                                   /\ "TEST-2" \in Range(KeysAt(NodeAt(d, p)))
    /\ Len(content.issue.relatedIssues) = 1
    /\ content.issue.relatedIssues[1].key = "TEST-2"

(* the text values of the text nodes of a document, concatenated in        *)
(* document order                                                          *)
LeafText(nodes) ==
    LET order == InOrder(PathsOf(nodes))
    IN Flatten([i \in DOMAIN order |->
                  IF NodeAt(nodes, order[i]).type = "text"
                  THEN NodeAt(nodes, order[i]).text ELSE <<>>])

(* C26: for a tree of text nodes and container nodes of any depth,         *)
(* extractTextContent returns exactly the text values of the leaves        *)
(* concatenated in document order, with nothing inserted between them;     *)
(* nodes that are neither text nor containers contribute nothing: for the  *)
(* description of an issue and for the body of each comment                *)
C26_TextIsLeafConcatenation ==
    /\ Built => content.issue.description = LeafText(content.raw.description)
    /\ Merged => \A i \in DOMAIN content.comments :
                    content.issue.comments[i].body = LeafText(content.comments[i].body)

C26_Witness ==
    /\ content.stage = "searched"
    /\ LET d == content.raw.description
       IN \E p, q \in PathsOf(d) :
            /\ Len(p) = 1 /\ Len(q) = 2 /\ Precedes(p, q)
            /\ NodeAt(d, p).type = "text" /\ NodeAt(d, q).type = "text"
            /\ content.issue.description = NodeAt(d, p).text \o NodeAt(d, q).text
    /\ Len(content.issue.description) > 3

(* C27: each formal-link entry carries the key and the summary of the      *)
(* issue at the other end of the link, and the relationship label of the   *)
(* link's direction: the inward label when the link has an inward issue,   *)
(* the outward label when it has an outward issue                          *)
C27_RelationshipOfDirection ==
    Built =>
        LET r == content.issue.relatedIssues
            links == content.raw.issuelinks
            a == extractIssueMentions(content.raw.description, "description", Undefined)
        IN \A i \in DOMAIN links :
             LET entry == r[Len(a) + i] IN
             /\ entry.type = "link"
             /\ entry.key = OtherEnd(links[i]).key
             /\ entry.summary = OtherEnd(links[i]).summary
             /\ entry.relationship = IF links[i].inwardIssue # NoIssue
                                     THEN links[i].type.inward
                                     ELSE links[i].type.outward

(* C28: every mention of a cleaned comment has source = comment and that   *)
(* comment's id; every relatedIssues entry with source = comment carries   *)
(* the id of a comment of the issue and is one of that comment's mentions; *)
(* the entries made of the description or of formal links carry no         *)
(* commentId                                                               *)
C28_CommentMentionsTagged ==
    Built =>
        LET r == content.issue.relatedIssues
            cs == content.issue.comments
            fromIssue == Len(cleanIssue(content.raw).relatedIssues)
        IN /\ Merged => \A i \in DOMAIN cs :
                /\ cs[i].id = content.comments[i].id
                /\ \A j \in DOMAIN cs[i].mentions :
                     /\ cs[i].mentions[j].source = "comment"
                     /\ cs[i].mentions[j].commentId = cs[i].id
           /\ \A k \in DOMAIN r :
                r[k].source = "comment" =>
                    \E i \in DOMAIN cs :
                        /\ cs[i].id = r[k].commentId
                        /\ \E j \in DOMAIN cs[i].mentions : cs[i].mentions[j] = r[k]
           /\ \A k \in DOMAIN r :
                k <= fromIssue => r[k].source = "description" /\ r[k].commentId = Undefined
           /\ \A k \in DOMAIN r :
                k > fromIssue => r[k].source = "comment"

C28_Witness ==
    /\ content.stage = "child"
    /\ Len(content.issue.comments) = 2
    /\ \A i \in 1..2 : Len(content.issue.comments[i].mentions) = 2
    /\ \E k \in DOMAIN content.issue.relatedIssues :
         /\ content.issue.relatedIssues[k].type = "link"
         /\ content.issue.relatedIssues[k].commentId = Undefined
    /\ \E k \in DOMAIN content.issue.relatedIssues :
         /\ content.issue.relatedIssues[k].type = "mention"
         /\ content.issue.relatedIssues[k].source = "description"
    /\ \E k \in DOMAIN content.issue.relatedIssues :
         content.issue.relatedIssues[k].commentId = content.comments[2].id

(* the message the priority order of C29 gives for a response: the JSON    *)
(* body's error-message list joined, else its message field, else its      *)
(* errorMessage field, else the non-JSON raw body cut after TruncLen        *)
(* characters (an ellipsis marks the cut), else the status text            *)
MessageByPriority(r) ==
    LET b == r.body IN
    IF b.json /\ b.errorMessages # <<>> THEN Join(b.errorMessages)
    ELSE IF b.json /\ b.message # "" THEN <<b.message>>
    ELSE IF b.json /\ b.errorMessage # "" THEN <<b.errorMessage>>
    ELSE IF ~b.json /\ b.text # <<>>
    THEN (IF Len(b.text) > TruncLen THEN SubSeq(b.text, 1, TruncLen) \o <<"...">>
          ELSE b.text)
    ELSE IF StatusText(r.status) # "" THEN <<StatusText(r.status)>>
    ELSE <<>>

(* C29: a request that ends on a non-success response raises a             *)
(* 'JIRA API Error', and every such error carries the status of a          *)
(* non-success response the request received and the message the priority  *)
(* order gives for that response                                           *)
C29_ErrorMessageByPriority ==
    \A i \in Finished :
        LET p == proc[i] IN
        /\ (p.responses # <<>> /\ p.responses[Len(p.responses)] # NoResponse
              /\ ~Ok(p.responses[Len(p.responses)]))
             => p.result.kind = "error" /\ p.result.err.tag = "JIRA API Error"
        /\ (p.result.kind = "error" /\ p.result.err.tag = "JIRA API Error")
             => \E k \in DOMAIN p.responses :
                   /\ ~Ok(p.responses[k])
                   /\ p.result.err.status = p.responses[k].status
                   /\ p.result.err.msg
                        = <<"JIRA API Error">> \o MessageByPriority(p.responses[k])

(* the pair most recently written by refreshAndStoreTokens *)
LatestPersisted == CHOOSE k \in persisted : \A j \in persisted : j <= k

(* C30: with no concurrent requests, after any sequence of getAuthHeaders, *)
(* getCloudId and handleTokenExpiration calls the refresh token in the     *)
(* credential file is the one most recently issued: a pair that was        *)
(* rotated in and saved is never overwritten by an older pair              *)
C30_LatestRefreshTokenKept ==
    (authType = "OAUTH_2.0" /\ persisted # {} /\ tokenFile.state = "json")
        => tokenFile.refresh_token = RefreshTok(LatestPersisted)

(* getIssueWithComments has started on a loadable pair whose access token  *)
(* had expired, and the token endpoint has answered neither of its two     *)
(* primary requests                                                        *)
StartedExpired ==
    /\ authType = "OAUTH_2.0"
    /\ op.name = "getIssueWithComments" /\ op.state = "primary"
    /\ loadStoredTokens(tokenFile) # Null
    /\ tokenFile.expires_at # 0 /\ tokenFile.expires_at <= StartTime
    /\ persisted = {}
    /\ \A i \in {1, 2} : proc[i].pc # "done" /\ proc[i].nToken <= 1

(* C31: the refresh-token race is reachable inside one process: when the   *)
(* two primary requests of getIssueWithComments start on an expired stored *)
(* access token, both read the stored refresh token and both have          *)
(* submitted it to the token endpoint before either persists a new pair    *)
C31_BothSubmitStoredRefreshToken ==
    StartedExpired =>
        \A i \in {1, 2} :
            /\ proc[i].pc = "token"
            /\ proc[i].rt = tokenFile.refresh_token
            /\ proc[i].res.case = "expired"

C31_Witness ==
    /\ StartedExpired
    /\ proc[1].pc = "token" /\ proc[2].pc = "token"
    /\ proc[1].rt = RefreshTok(0) /\ proc[2].rt = RefreshTok(0)
    /\ tokenFile.refresh_token = RefreshTok(0)
    /\ issued = 0

(* C32: with a valid stored refresh token, a provider that accepts each    *)
(* refresh token once and a stored access token that is rejected with 401, *)
(* getIssueWithComments recovers through refresh-and-retry and returns the *)
(* issue, for every interleaving of the issue fetch and the comments fetch *)
C32_RecoversForEveryInterleaving ==
    (op.name = "getIssueWithComments" /\ op.state = "done") => op.result.kind = "ok"

InFlight(p) == p.pc \notin {"idle", "done"}

EpicChildren == op.name = "getEpicChildren"

(* the entries of a relatedIssues list that come from comments *)
FromComments(related) == SelectSeq(related, LAMBDA e : e.source = "comment")

(* C34: getEpicChildren issues the comment fetches of all children before  *)
(* any of them completes and, whatever the order in which they complete,   *)
(* returns the children in the order of the search result, each with       *)
(* exactly the comments and the comment mentions of its own comments       *)
(* response                                                                *)
C34_ChildrenInSearchOrderWithOwnComments ==
    /\ (EpicChildren /\ op.state = "children" /\ op.order = <<>>)
          => \A k \in DOMAIN op.search : InFlight(proc[k + 1])
    /\ (EpicChildren /\ op.state = "done" /\ op.result.kind = "ok")
          => /\ DOMAIN op.returned = DOMAIN op.search
             /\ \A k \in DOMAIN op.search :
                  LET child == op.returned[k]
                      own == op.comments[k]
                  IN /\ child.key = op.search[k].key
                     /\ child.description = extractTextContent(op.search[k].description)
                     /\ DOMAIN child.comments = DOMAIN own
                     /\ \A j \in DOMAIN own : child.comments[j] = cleanComment(own[j])
                     /\ FromComments(child.relatedIssues)
                          = Flatten([j \in DOMAIN own |-> cleanComment(own[j]).mentions])

C34_Witness ==
    /\ EpicChildren /\ op.state = "done" /\ op.result.kind = "ok"
    /\ Len(op.search) = 2
    /\ op.order = <<2, 1>>
    /\ Len(op.comments[1]) = 2 /\ Len(op.comments[2]) = 1
    /\ op.returned[1].key = op.search[1].key
    /\ Len(op.returned[1].comments) = 2

(* The refresh that answered request i in this step *)
RefreshAnswered(i) == proc[i].pc = "token" /\ proc'[i] # proc[i]

Embeds(msg, part) ==
    \E k \in 0..(Len(msg) - Len(part)) : SubSeq(msg, k + 1, k + Len(part)) = part

(* The error text of the provider: error_description, else error, of a     *)
(* JSON body; the raw text otherwise                                       *)
ProviderText(body) ==
    IF body.json
    THEN (IF body.error_description # "" THEN <<body.error_description>>
          ELSE IF body.error # "" THEN <<body.error>> ELSE <<>>)
    ELSE body.text

FailedRefreshKeepsFile(i) ==
    /\ tokenFile' = tokenFile
    /\ issued' = issued
    /\ proc'[i].lastRefresh.token = EmptyToken
    /\ ~proc'[i].lastRefresh.wrote

(* C35 as stated: every failed refresh (a non-success answer, or a success *)
(* answer that lacks a token) leaves the file as it was, returns no token, *)
(* and raises an error that embeds the answer's status code                *)
C35_EveryFailureEmbedsStatus ==
    [][\A i \in Procs :
         LET a == proc'[i].lastRefresh.answer
             e == proc'[i].lastRefresh.err
         IN RefreshAnswered(i) /\ a.kind \in {"http", "incomplete"} =>
              /\ FailedRefreshKeepsFile(i)
              /\ Embeds(e.msg, <<ToString(a.status)>>)]_vars

(* C35, amended: a failed refresh leaves the file as it was and returns no *)
(* token; the error of a non-success answer embeds the status code and the *)
(* provider's text, of which a non-JSON body gives at most TruncLen        *)
(* characters; the error of a success answer that lacks a token is a       *)
(* fixed message that embeds neither                                       *)
C35_FailedRefreshKeepsFileAndReports ==
    [][\A i \in Procs :
         LET a == proc'[i].lastRefresh.answer
             e == proc'[i].lastRefresh.err
             text == ProviderText(a.body)
         IN RefreshAnswered(i) /\ a.kind \in {"http", "incomplete"} =>
              /\ FailedRefreshKeepsFile(i)
              /\ a.kind = "http" =>
                    /\ Embeds(e.msg, <<ToString(a.status)>>)
                    /\ IF a.body.json \/ Len(text) <= TruncLen
                       THEN Embeds(e.msg, text)
                       ELSE /\ Embeds(e.msg, SubSeq(text, 1, TruncLen))
                            /\ ~Embeds(e.msg, text)
              /\ a.kind = "incomplete" =>
                    e.msg = <<"OAuth token refresh failed",
                              "Incomplete token data received from OAuth endpoint">>]_vars

C35_Witness ==
    \E i \in Procs :
        /\ proc[i].lastRefresh.answer.kind = "http"
        /\ proc[i].lastRefresh.answer.body = TokenText(LongText)
        /\ proc[i].lastRefresh.token = EmptyToken
        /\ tokenFile.state = "json"

(* At most two calls of getValidAccessToken's refreshes (the expired pair, *)
(* then the bootstrap token) in each of its three invocations (discovery,  *)
(* headers of the first call, headers of the retry), and one forced refresh *)
MaxTokenCalls == 2 * 3 + 1

Running(i) == proc[i].pc \in {"token", "resources", "call"}

(* C36: when every network call completes, a request that has started      *)
(* ends with a body or with an error; it calls its target at most twice    *)
(* and the token endpoint at most MaxTokenCalls times                      *)
C36_RequestTerminatesWithinBounds ==
    /\ [](\A i \in Procs :
            /\ Len(proc[i].calls) <= 2
            /\ proc[i].nToken <= MaxTokenCalls
            /\ proc[i].pc = "done" => proc[i].result.kind \in {"ok", "error"})
    /\ \A i \in Procs : Running(i) ~> proc[i].pc = "done"

C36_Witness ==
    \E i \in Procs :
        /\ proc[i].pc = "done"
        /\ Len(proc[i].calls) = 2
        /\ proc[i].nToken >= 3

(* C37: getIssueWithComments raises "Issue not found" only if one of its   *)
(* two primary fetches received status 404; any other failure is raised as *)
(* the error of the fetch that failed, whatever the tracker's message says *)
C37_NotFoundOnlyOn404 ==
    (op.name = "getIssueWithComments" /\ op.state = "done" /\ op.result.kind = "error")
        => IF op.result.err.tag = "Issue not found"
           THEN \E i \in {1, 2} : \E k \in 1..Len(proc[i].responses) :
                    proc[i].responses[k].status = 404
           ELSE \E i \in {1, 2} :
                    /\ proc[i].pc = "done"
                    /\ op.result = proc[i].result

(* The children whose comments fetch has failed *)
FailedChildren ==
    {k \in DOMAIN op.search : proc[k + 1].pc = "done" /\ proc[k + 1].result.kind = "error"}

(* C38: getEpicChildren is all-or-nothing: when the search or a child's    *)
(* comments fetch has failed the operation has raised the error of the     *)
(* fetch that failed (the first one to fail) and returned no list; a list  *)
(* that is returned has every child of the search, each built with the     *)
(* answer of its own comments fetch                                        *)
C38_AllOrNothing ==
    EpicChildren =>
        /\ (proc[1].pc = "done" /\ proc[1].result.kind = "error")
              => /\ op.state = "done" /\ op.result = proc[1].result
                 /\ op.returned = <<>>
        /\ FailedChildren # {}
              => /\ op.state = "done" /\ op.result.kind = "error"
                 /\ op.order # <<>>
                 /\ LET first == op.order[Len(op.order)]
                    IN /\ first \in FailedChildren
                       /\ op.result = proc[first + 1].result
                       /\ \A n \in 1..(Len(op.order) - 1) :
                              op.order[n] \notin FailedChildren
                 /\ op.returned = <<>>
        /\ (op.state = "done" /\ op.result.kind = "ok")
              => /\ Len(op.returned) = Len(op.search)
                 /\ \A k \in DOMAIN op.search :
                        /\ proc[k + 1].result.kind = "ok"
                        /\ Len(op.returned[k].comments) = Len(op.comments[k])

C38_Witness ==
    /\ EpicChildren /\ op.state = "done"
    /\ Len(op.search) = 2
    /\ op.order = <<1, 2>>
    /\ proc[2].result.kind = "ok"
    /\ proc[3].result.kind = "error"
    /\ op.result = proc[3].result
    /\ op.built[1] # Unbuilt

(* Request i's latest call of getValidAccessToken read the pair that the   *)
(* request's latest refresh had stored                                     *)
ReadOwnPair(i) ==
    /\ proc[i].lastRefresh.wrote
    /\ proc[i].res.case \in {"valid", "expired"}
    /\ proc[i].res.storedAt = proc[i].lastRefresh.token
    /\ proc[i].res.at >= proc[i].lastRefresh.at

(* C39: a pair issued at time t with lifetime L is reused while the time   *)
(* is before t + L - ExpiryMargin, and a refresh is submitted at the first *)
(* use at or after that instant; a pair issued without a lifetime is never *)
(* taken for expired (times in minutes, ExpiryMargin = 60000 ms)           *)
C39_ExpiryWithSafetyMargin ==
    \A i \in Procs :
        ReadOwnPair(i) =>
            LET t == proc[i].lastRefresh.at
                L == proc[i].lastRefresh.answer.expires_in
                use == proc[i].res.at
                reused == proc[i].res.case = "valid"
            IN /\ reused <=> (L = 0 \/ use < t + L - ExpiryMargin)
               /\ reused /\ proc[i].res.returned # EmptyToken
                     => /\ proc[i].res.returned = proc[i].res.storedAt
                        /\ proc[i].res.end[1] = proc[i].res.mark[1]
               /\ ~reused => proc[i].nToken > proc[i].res.mark[1]

C39_Witness ==
    \E i \in Procs :
        /\ ReadOwnPair(i)
        /\ proc[i].lastRefresh.answer.expires_in = 2
        /\ proc[i].res.at = proc[i].lastRefresh.at + 1
        /\ proc[i].res.case = "expired"
        /\ proc[i].pc = "token"

(* url is a browse path of issue K *)
BrowsePathFor(url, K) ==
    \E i \in 1..(Len(url) - 1) : url[i] = "/browse/" /\ url[i + 1] = K

(* the keys that some node of the document, at any depth, refers to *)
MentionedKeys(nodes) ==
    {K \in IssueKeys :
        \E p \in PathsOf(nodes) :
            LET n == NodeAt(nodes, p)
            IN \/ n.type = "inlineCard" /\ BrowsePathFor(n.url, K)
               \/ n.type = "text" /\ \E i \in DOMAIN n.text : n.text[i] = K}

CoversTree(mentions, nodes, source, commentId) ==
    /\ {mentions[i].key : i \in DOMAIN mentions} = MentionedKeys(nodes)
    /\ \A i \in DOMAIN mentions :
          /\ mentions[i].type = "mention"
          /\ mentions[i].source = source
          /\ mentions[i].commentId = commentId

(* C40: extractIssueMentions covers the whole tree: a key is in its result *)
(* exactly when a node at some depth is an inline card whose URL is a      *)
(* browse path of the key or a text node whose text holds the key, and     *)
(* every entry is a mention with the source and the comment id passed: for *)
(* the description's call and for each comment's call                      *)
C40_MentionsCoverWholeTree ==
    /\ (content.stage = "searched" /\ content.raw.issuelinks = <<>>)
          => CoversTree(content.issue.relatedIssues, content.raw.description,
                        "description", Undefined)
    /\ Merged
          => \A i \in DOMAIN content.comments :
                CoversTree(content.issue.comments[i].mentions, content.comments[i].body,
                           "comment", content.comments[i].id)

C40_Witness ==
    /\ content.stage = "child"
    /\ Len(content.comments) = 1
    /\ LET d == content.comments[1].body
       IN /\ \E p \in PathsOf(d) : Len(p) = 3 /\ NodeAt(d, p).type = "inlineCard"
                                    /\ BrowsePathFor(NodeAt(d, p).url, "TEST-2")
          /\ content.issue.comments[1].mentions
                = <<Mention("TEST-2", "comment", content.comments[1].id)>>

====
